---- MODULE Spec2Model ----
(***************************************************************************)
(* Monday Weekly: a model of the content merge store, the hash router,     *)
(* the JSON importer/exporter and the article-image resolver.              *)
(*                                                                         *)
(* JavaScript values are modelled as follows.                              *)
(*   - a string that the code takes apart (a route, an image URL) is a     *)
(*     sequence of tokens; a token is a run of characters that the code's  *)
(*     regular expressions treat as a unit ("logo", ".svg", "?", "/").     *)
(*   - `undefined` is the string Undefined; `null` issues carry isNull.    *)
(*   - a Map is a sequence of <<key, value>> pairs in insertion order.     *)
(***************************************************************************)
EXTENDS Integers, Sequences, FiniteSets, TLC

\* ------------------------------------------------------------------ bounds
\* longest local / remote collection handed to mergeIssues directly
MaxLocal == 2
MaxRemote == 2
\* longest route string (in tokens) handed to parseHashFromString
MaxHashLen == 5
\* longest image URL path (in tokens) handed to scoreImage directly
MaxUrlLen == 4
\* most <meta>/<img> tags in a proxied article page
MaxTags == 2
\* most issues in one remote payload or one pasted import
MaxPayload == 2
\* most files a manifest lists
MaxFiles == 2
\* most on-demand fetches issued in one session
MaxFetches == 2
\* most visits of the application by one browser
MaxVisits == 3
\* most changes of an image element's src prop
MaxSrcChanges == 2

\* ------------------------------------------------------------------ values
Undefined == "<undefined>"

\* JavaScript truthiness of a string-or-undefined value
Truthy(v) == v # Undefined /\ v # ""

TruthyIds == {"A", "B"}
Markers == {"m1", "m2"}

NullIssue == [isNull |-> TRUE, id |-> Undefined, marker |-> Undefined]

\* issue objects with a usable id
GoodIssues == [isNull : {FALSE}, id : TruthyIds, marker : Markers]

\* malformed entries: id: "" and no id at all, and a null entry
BadIssues ==
  {[isNull |-> FALSE, id |-> "", marker |-> "m1"],
   [isNull |-> FALSE, id |-> Undefined, marker |-> "m1"],
   NullIssue}

AnyIssues == GoodIssues \cup BadIssues

SeqsUpTo(S, n) == UNION {[1..k -> S] : k \in 0..n}

Min(S) == CHOOSE x \in S : \A y \in S : x <= y

\* i?.id
IdOf(i) == IF i.isNull THEN Undefined ELSE i.id

\* ------------------------------------------------------------------ Map
\* Map.prototype.has
MapHas(m, k) == \E j \in DOMAIN m : m[j][1] = k

\* Map.prototype.set: an existing key keeps its position, a new key is appended
MapSet(m, k, v) ==
  IF MapHas(m, k)
  THEN [j \in DOMAIN m |-> IF m[j][1] = k THEN <<k, v>> ELSE m[j]]
  ELSE Append(m, <<k, v>>)

\* Array.from(map.values())
MapValues(m) == [j \in DOMAIN m |-> m[j][2]]

\* for (const i of issues) if (i?.id) map.set(i.id, i);
RECURSIVE SetAllWithId(_, _)
SetAllWithId(m, issues) ==
  IF issues = <<>> THEN m
  ELSE LET i == Head(issues)
       IN SetAllWithId(IF Truthy(IdOf(i)) THEN MapSet(m, IdOf(i), i) ELSE m,
                       Tail(issues))

\* for (const i of issues) map.set(i.id, i);   (no id test)
RECURSIVE SetAll(_, _)
SetAll(m, issues) ==
  IF issues = <<>> THEN m
  ELSE SetAll(MapSet(m, IdOf(Head(issues)), Head(issues)), Tail(issues))

\* mutants of mergeIssues
mergeIssuesLocalWins(localIssues, remoteIssues) ==
  MapValues(SetAllWithId(SetAllWithId(<<>>, remoteIssues), localIssues))

mergeIssuesConcat(localIssues, remoteIssues) ==
  SelectSeq(localIssues \o remoteIssues, LAMBDA i : Truthy(IdOf(i)))

mergeIssuesKeepFalsy(localIssues, remoteIssues) ==
  MapValues(SetAll(SetAll(<<>>, localIssues), remoteIssues))

mergeIssues(localIssues, remoteIssues) ==
  MapValues(SetAllWithId(SetAllWithId(<<>>, localIssues), remoteIssues))

\* ------------------------------------------------------------------ router
\* a route string is a sequence of these tokens; "issue" and "x" stand for
\* runs of characters other than "#" and "/"
HashTokens == {"#", "/", "issue", "x"}

\* String.prototype.replace(/^#/, "")
StripLeadingHash(s) == IF s # <<>> /\ Head(s) = "#" THEN Tail(s) ELSE s

\* String.prototype.split("/"): every "/" ends a part, empty parts are kept
RECURSIVE SplitSlash(_, _)
SplitSlash(s, cur) ==
  IF s = <<>> THEN <<cur>>
  ELSE IF Head(s) = "/" THEN <<cur>> \o SplitSlash(Tail(s), <<>>)
  ELSE SplitSlash(Tail(s), Append(cur, Head(s)))

\* .filter(Boolean) on an array of strings: the empty string is falsy
FilterBoolean(parts) == SelectSeq(parts, LAMBDA p : p # <<>>)

HomeRoute == [name |-> "home", params |-> <<>>]

\* mutant of parseHashFromString: empty parts are not filtered out
parseHashFromStringNoFilter(hashRaw) ==
  LET hash == StripLeadingHash(hashRaw)
      parts == SplitSlash(hash, <<>>)
  IN IF Len(parts) >= 2 /\ parts[1] = <<"issue">> /\ parts[2] # <<>>
     THEN [name |-> "issue", params |-> <<parts[2]>>]
     ELSE HomeRoute

parseHashFromString(hashRaw) ==
  LET hash == StripLeadingHash(hashRaw)
      parts == FilterBoolean(SplitSlash(hash, <<>>))
  IN IF Len(parts) >= 2 /\ parts[1] = <<"issue">> /\ parts[2] # <<>>
     THEN [name |-> "issue", params |-> <<parts[2]>>]
     ELSE HomeRoute

\* ------------------------------------------------------------------ images
\* An image URL is a sequence of tokens. The first token may be a scheme and
\* host ("https://h/", or the protocol-relative "//h/"); the others stand for
\* runs of characters of the path and query:
\*   "hero"  a content hint          "logo", "Logo"  a logo-like word
\*   ".jpg"  an accepted extension   ".svg", ".gif", ".SVG"  a disallowed one
\*   "1200"  a size hint             "?"  the start of the query string
\*   "x"     any other characters
PathTokens == {"hero", "logo", "Logo", ".jpg", ".svg", ".gif", ".SVG", "1200", "?", "x"}

EmptyUrl == <<>>

\* String.prototype.toLowerCase, token by token
LowerToken(t) ==
  CASE t = "Logo" -> "logo"
    [] t = ".SVG" -> ".svg"
    [] OTHER -> t
toLowerCase(u) == [j \in DOMAIN u |-> LowerToken(u[j])]

\* regex test: one of the words occurs somewhere in s
ContainsAny(s, words) == \E j \in DOMAIN s : s[j] \in words

\* regex test /<ext>(\?|$)/ : the extension is followed by "?" or ends s
ExtThenQueryOrEnd(s, exts) ==
  \E j \in DOMAIN s : s[j] \in exts /\ (j = Len(s) \/ s[j + 1] = "?")

\* mutant of isBadExt: the extension must end the URL (no query string)
isBadExtOnlyAtEnd(u) ==
  u # <<>> /\ LowerToken(u[Len(u)]) \in {".svg", ".gif"}

\* /\.svg(\?|$)/i.test(u) || /\.gif(\?|$)/i.test(u)
isBadExt(u) ==
  \/ ExtThenQueryOrEnd(toLowerCase(u), {".svg"})
  \/ ExtThenQueryOrEnd(toLowerCase(u), {".gif"})

\* /(logo|favicon|icon|...)/.test((u || "").toLowerCase())
isLogoish(u) == ContainsAny(toLowerCase(u), {"logo"})

\* /\.(jpe?g|png|webp|avif)(\?|$)/i.test(u)
goodExt(u) == ExtThenQueryOrEnd(toLowerCase(u), {".jpg"})

\* mutant of scoreImage: the logo penalty is as small as the extension penalty
scoreImageSmallPenalty(u) ==
  LET s == toLowerCase(u)
  IN (IF ContainsAny(s, {"hero"}) THEN 10 ELSE 0)
     + (IF goodExt(s) THEN 5 ELSE 0)
     + (IF ContainsAny(s, {"1200"}) THEN 2 ELSE 0)
     - (IF isLogoish(s) THEN 10 ELSE 0)
     - (IF isBadExt(s) THEN 10 ELSE 0)

scoreImage(u) ==
  LET s == toLowerCase(u)
  IN (IF ContainsAny(s, {"hero"}) THEN 10 ELSE 0)
     + (IF goodExt(s) THEN 5 ELSE 0)
     + (IF ContainsAny(s, {"1200"}) THEN 2 ELSE 0)
     - (IF isLogoish(s) THEN 20 ELSE 0)
     - (IF isBadExt(s) THEN 10 ELSE 0)

\* a candidate is usable only with a score of at least this
AcceptanceThreshold == 1

\* ------------------------------------------------------------------ scraper
\* article URLs (an item's first link): two that parse, one that does not
GoodArticles == {"a1", "a2"}
BadArticle == "not a url"

\* new URL(url) succeeds
Parseable(url) == url \in GoodArticles

\* `${base.protocol}//${base.host}` of an article URL, with the "/" that
\* new URL(maybe, origin) puts before a relative path
OriginOf(url) == IF url = "a1" THEN "https://a1/" ELSE "https://a2/"

AbsHeads == {"https://h/", "https://a1/", "https://a2/"}

\* toJinaProxy: "" when the URL does not parse
toJinaProxy(url) == IF Parseable(url) THEN <<"https://r.jina.ai/", url>> ELSE <<>>

toAbsoluteUrl(maybe, baseUrl) ==
  IF maybe = <<>> THEN EmptyUrl
  ELSE IF Head(maybe) \in AbsHeads THEN maybe
  ELSE IF Head(maybe) = "//h/" THEN <<"https://h/">> \o Tail(maybe)
  ELSE IF Parseable(baseUrl) THEN <<OriginOf(baseUrl)>> \o maybe
  ELSE maybe

\* the image URLs that the pages of the modelled web carry
RawUrls ==
  {<<"https://h/", "hero", ".jpg">>,
   <<"//h/", "hero", ".jpg">>,
   <<"hero", ".svg">>,
   <<"https://h/", "hero", ".gif", "?", "x">>,
   <<"https://h/", "hero", ".SVG">>,
   <<"https://h/", "logo", "hero", ".jpg">>,
   <<"x">>,
   <<"https://h/", "x", "1200", ".jpg">>,
   <<"https://h/", "hero", "1200", ".jpg">>,
   <<"x", "hero", ".jpg">>}

\* a tag of the page: a whitelisted <meta> (og:image, twitter:image, ...),
\* an <img>, or a <meta> of another name, which metaRe does not match
Tags == [tag : {"meta", "img", "othermeta"}, url : RawUrls]

\* the proxy's answer: fetch rejects, or a response with res.ok and a body
Responses ==
  {[kind |-> "reject", ok |-> FALSE, html |-> <<>>]}
  \cup [kind : {"response"}, ok : {FALSE}, html : {<<>>}]
  \cup [kind : {"response"}, ok : {TRUE}, html : SeqsUpTo(Tags, MaxTags)]

\* html.matchAll(re): the captured URLs of the tags of one kind, in page order
RECURSIVE MatchAll(_, _)
MatchAll(html, kind) ==
  IF html = <<>> THEN <<>>
  ELSE (IF Head(html).tag = kind THEN <<Head(html).url>> ELSE <<>>)
       \o MatchAll(Tail(html), kind)

\* new Set() filled by set.add in order: the first occurrence keeps its place
RECURSIVE SetAddAll(_, _)
SetAddAll(set, urls) ==
  IF urls = <<>> THEN set
  ELSE SetAddAll(IF \E j \in DOMAIN set : set[j] = Head(urls)
                 THEN set ELSE Append(set, Head(urls)),
                 Tail(urls))

\* [...set].filter(Boolean).filter(!isBadExt).filter(!isLogoish)
Candidates(html, url) ==
  LET found == MatchAll(html, "meta") \o MatchAll(html, "img")
      abs == [j \in DOMAIN found |-> toAbsoluteUrl(found[j], url)]
      set == SetAddAll(<<>>, abs)
  IN SelectSeq(SelectSeq(SelectSeq(set, LAMBDA u : u # EmptyUrl),
                         LAMBDA u : ~isBadExt(u)),
               LAMBDA u : ~isLogoish(u))

\* Array.prototype.sort((a, b) => scoreImage(b) - scoreImage(a)): stable,
\* by insertion of each element after the elements that score at least as much
RECURSIVE InsertByScore(_, _)
InsertByScore(sorted, u) ==
  IF sorted = <<>> THEN <<u>>
  ELSE IF scoreImage(Head(sorted)) >= scoreImage(u)
       THEN <<Head(sorted)>> \o InsertByScore(Tail(sorted), u)
       ELSE <<u>> \o sorted

\* mutant of SortByScore: the candidates stay in page order
SortByScoreKeepOrder(sorted, rest) == sorted \o rest

RECURSIVE SortByScore(_, _)
SortByScore(sorted, rest) ==
  IF rest = <<>> THEN sorted
  ELSE SortByScore(InsertByScore(sorted, Head(rest)), Tail(rest))

NoImage == [threw |-> FALSE, value |-> EmptyUrl]

\* the value the returned promise settles with: threw when fetch rejects
resolveArticleImage(url, resp) ==
  IF toJinaProxy(url) = <<>> THEN NoImage
  ELSE IF resp.kind = "reject" THEN [threw |-> TRUE, value |-> EmptyUrl]
  ELSE IF ~resp.ok THEN NoImage
  ELSE LET candidates == SortByScore(<<>>, Candidates(resp.html, url))
       IN IF candidates = <<>> THEN NoImage
          ELSE IF scoreImage(candidates[1]) < AcceptanceThreshold THEN NoImage
          ELSE [threw |-> FALSE, value |-> candidates[1]]

\* ------------------------------------------------------------------ store
\* stands for the bootstrap issue's id "2025-08-18_2025-08-24"
BootId == "W"

\* bootstrapData.issues
bootstrapData == <<[isNull |-> FALSE, id |-> BootId, marker |-> Undefined]>>

AppIds == {"A", BootId}

\* what a remote resource or a pasted payload may carry in its issues array
PayloadIssues ==
  [isNull : {FALSE}, id : AppIds, marker : Markers]
  \cup {[isNull |-> FALSE, id |-> "", marker |-> "m1"], NullIssue}

Payloads == SeqsUpTo(PayloadIssues, MaxPayload)

\* ---- JSON text
\* A JSON text is modelled by what a parser sees of it: whether it is
\* well-formed, whether it holds a backslash that is no legal escape, whether
\* its top-level value is null, whether that value has an "issues" array, and
\* the array's items; an item is null or the list of its "key": value pairs.
\* A field whose value is undefined has no pair.
PairsOf(i) ==
  (IF i.id # Undefined THEN <<(<<"id", i.id>>)>> ELSE <<>>)
  \o (IF i.marker # Undefined THEN <<(<<"marker", i.marker>>)>> ELSE <<>>)

StringifyItem(i) ==
  IF i.isNull THEN [null |-> TRUE, pairs |-> <<>>]
  ELSE [null |-> FALSE, pairs |-> PairsOf(i)]

\* mutant of JSONstringify: only the id of an issue is written
JSONstringifyIdsOnly(issues) ==
  [valid |-> TRUE, backslash |-> FALSE, top |-> "object", issuesArray |-> TRUE,
   items |-> [j \in DOMAIN issues |->
                [null |-> FALSE, pairs |-> <<(<<"id", issues[j].id>>)>>]]]

\* JSON.stringify({ issues }, null, 2)
JSONstringify(issues) ==
  [valid |-> TRUE, backslash |-> FALSE, top |-> "object", issuesArray |-> TRUE,
   items |-> [j \in DOMAIN issues |-> StringifyItem(issues[j])]]

\* the value of a key of a parsed object: the last pair with that key
Field(pairs, key) ==
  LET at == {j \in DOMAIN pairs : pairs[j][1] = key}
  IN IF at = {} THEN Undefined
     ELSE pairs[CHOOSE j \in at : \A k \in at : k <= j][2]

ParseItem(it) ==
  IF it.null THEN NullIssue
  ELSE [isNull |-> FALSE, id |-> Field(it.pairs, "id"), marker |-> Field(it.pairs, "marker")]

\* JSON.parse(text): threw on a text that is not JSON
JSONparse(text) ==
  [threw |-> ~text.valid,
   isNull |-> text.top = "null",
   issuesArray |-> text.issuesArray,
   issues |-> [j \in DOMAIN text.items |-> ParseItem(text.items[j])]]

\* the textarea's initial content "", which is not JSON
EmptyText ==
  [valid |-> FALSE, backslash |-> FALSE, top |-> "object", issuesArray |-> FALSE, items |-> <<>>]

\* issues arrays an admin may paste: empty, valid ones (new ids, ids of the
\* store, one id twice) and ones in which an issue is null or has the id ""
ImportPayloads ==
  LET Issue(id, marker) == [isNull |-> FALSE, id |-> id, marker |-> marker]
  IN {<<>>,
      <<Issue("A", "m1")>>,
      <<Issue(BootId, "m2")>>,
      <<Issue("A", "m2"), Issue(BootId, "m1")>>,
      <<Issue("A", "m1"), Issue("A", "m2")>>,
      <<Issue("A", "m1"), Issue("", "m1")>>,
      <<NullIssue, Issue("A", "m1")>>,
      <<Issue("", "m1")>>,
      <<NullIssue>>}

\* texts an admin may paste: malformed ones, null, an object without an
\* issues array, and objects with an issues array
ImportTexts ==
  [valid : {FALSE}, backslash : BOOLEAN, top : {"object"}, issuesArray : {FALSE}, items : {<<>>}]
  \cup [valid : {TRUE}, backslash : {FALSE}, top : {"null"}, issuesArray : {FALSE}, items : {<<>>}]
  \cup [valid : {TRUE}, backslash : BOOLEAN, top : {"object"}, issuesArray : {FALSE}, items : {<<>>}]
  \cup {JSONstringify(p) : p \in ImportPayloads}

NoError == <<>>

\* e.message + hint
ErrorMessage(msg, text) == <<msg>> \o (IF text.backslash THEN <<"hint: check backslashes">> ELSE <<>>)

\* mutant of ImportCheck: the per-issue id test is missing
ImportCheckNoIdTest(text) ==
  LET payload == JSONparse(text)
  IN IF payload.threw THEN ErrorMessage("SyntaxError", text)
     ELSE IF payload.isNull \/ ~payload.issuesArray
          THEN ErrorMessage("missing issues array", text)
     ELSE NoError

\* the try block of handleImport up to onImport: the error it throws, if any
ImportCheck(text) ==
  LET payload == JSONparse(text)
      bad == {j \in DOMAIN payload.issues : ~Truthy(IdOf(payload.issues[j]))}
  IN IF payload.threw THEN ErrorMessage("SyntaxError", text)
     ELSE IF payload.isNull \/ ~payload.issuesArray
          THEN ErrorMessage("missing issues array", text)
     ELSE IF bad # {}
          THEN IF payload.issues[Min(bad)].isNull
               THEN ErrorMessage("TypeError", text)
               ELSE ErrorMessage("every issue needs an id", text)
     ELSE NoError

\* mutant of onImport: the payload is appended to the store
onImportAppend(prevIssues, payloadIssues) == prevIssues \o payloadIssues

\* mutant of onImport: the store is replaced by the payload's issues
onImportReplace(prevIssues, payloadIssues) == MapValues(SetAll(<<>>, payloadIssues))

\* the updater of onImport: a Map of the store by id, then every payload issue set
onImport(prevIssues, payloadIssues) ==
  MapValues(SetAll(SetAll(<<>>, prevIssues), payloadIssues))

\* (data?.issues || []).some((i) => i.id === id)
Exists(issues, id) == \E j \in DOMAIN issues : issues[j].id = id

\* the hash that go(`/issue/${id}`) sets, and the hash of the archive
IssueHash(id) == <<"#", "/", "issue", "/", id>>
HomeHash == <<"#", "/">>

\* mutant of NeedsFetch: the store is not consulted
NeedsFetchAnyIssueRoute(r, issues) == r.name = "issue" /\ r.params # <<>>

\* the on-demand effect's tests: an issue route with an id the store lacks
NeedsFetch(r, issues) ==
  /\ r.name = "issue"
  /\ r.params[1] # <<>>
  /\ ~Exists(issues, r.params[1][1])

\* ------------------------------------------------------------------ state
VARIABLES
  \* mergeIssues called directly, as the test panel does
  mpc, mLocal, mRemote, merged, mergedAgain,
  \* parseHashFromString called directly
  rpc, hashRaw, parsedRoute,
  \* scoreImage called directly
  spc, scoreUrl, score,
  \* resolveArticleImage called directly
  xpc, xUrl, xResp, xCandidates, xResult,
  \* MondayWeekly: the store, its persisted copy, the route, the loaders
  data,        \* data.issues
  persisted,   \* localStorage[STORAGE_KEY]
  route,       \* useHashRouter's route state
  manifest,    \* the manifest effect: "pending", "files", "done" or "failed"
  nFiles,      \* idx.files.length while the files are being fetched
  filesFailed, \* history: how many of the files' fetches had failed when they settled
  inflight,    \* on-demand fetches in flight, per issue id
  fetchCount,  \* on-demand fetches issued so far
  \* the admin's importer dialog and the exported file
  isAdmin, showImporter, text, error, exported,
  lastOp,      \* history: the operation that last called setData, if an import
  \* useResolvedImage, one instance per displayed ItemBlock
  racedImport, \* history: an import was applied while a remote fetch was in flight
  vItem,       \* the item prop of each view
  vImg,        \* the img state of each view
  vEval,       \* where the view's effect stands
  vTerminal,   \* history: the branches at which the view's current evaluation ended
  vOps,        \* history: cache lookups, scrapes and cache writes of that evaluation
  lateSettled, \* history: the last step was a scrape settling for a cleaned-up evaluation
  rerendered,  \* history: the last step was a render with unchanged effect dependencies
  scrapes,     \* resolveArticleImage calls in flight, with their alive flag
  imgCache,    \* localStorage[IMG_CACHE_KEY]
  nChanges,    \* item changes and unmounts so far
  \* useAdmin and the importer gate, over several visits of one browser
  envKey,      \* import.meta.env.VITE_ADMIN_KEY of the build, "" when unset
  adminStored, \* localStorage["mw.admin"]
  apc,         \* "closed", "rendered" (first render done, effect pending), "ready"
  urlKey,      \* params.get("key") of the visit
  urlAdmin,    \* params.get("admin") of the visit
  adminState,  \* the isAdmin state of useAdmin
  adminShow,   \* the showImporter state of the visit
  visits,      \* history: the parameters of the visits whose effect has run
  \* one <img> element with the onError handler setNextFallback
  fKind,       \* "card" (IssueCard, 1280x720) or "item" (ItemBlock, 1200x800)
  fProp,       \* the src prop of the last render
  fSrc,        \* imgEl.src
  fIdx,        \* imgEl.dataset.fidx
  fHidden,     \* imgEl.style.display = "none"
  fStatus,     \* "loading", "loaded" or "failed"
  fErrors,     \* history: load errors in a row
  fChanges     \* changes of the src prop so far

appVars == <<data, persisted, route, manifest, nFiles, filesFailed, inflight, fetchCount,
             isAdmin, showImporter, text, error, exported, lastOp, racedImport>>
scoreVars == <<spc, scoreUrl, score>>
scrapeVars == <<xpc, xUrl, xResp, xCandidates, xResult>>
mergeVars == <<mpc, mLocal, mRemote, merged, mergedAgain>>
routeVars == <<rpc, hashRaw, parsedRoute>>

resolverVars == <<vItem, vImg, vEval, vTerminal, vOps, lateSettled, rerendered, scrapes, imgCache, nChanges>>

adminVars == <<envKey, adminStored, apc, urlKey, urlAdmin, adminState, adminShow, visits>>
fallbackVars == <<fKind, fProp, fSrc, fIdx, fHidden, fStatus, fErrors, fChanges>>
sideVars == <<adminVars, fallbackVars>>

vars == <<mergeVars, routeVars, scoreVars, scrapeVars, appVars, resolverVars, sideVars>>

\* ------------------------------------------------------------------ merge
MergeIdle ==
  /\ mpc = "idle"
  /\ mLocal = <<>>
  /\ mRemote = <<>>
  /\ merged = <<>>
  /\ mergedAgain = <<>>

MergeInit ==
  /\ mpc = "start"
  /\ mLocal \in SeqsUpTo(AnyIssues, MaxLocal)
  /\ mRemote \in SeqsUpTo(AnyIssues, MaxRemote)
  /\ merged = <<>>
  /\ mergedAgain = <<>>

\* const merged = mergeIssues(local, remote)
CallMerge ==
  /\ mpc = "start"
  /\ merged' = mergeIssues(mLocal, mRemote)
  /\ mpc' = "merged"
  /\ UNCHANGED <<mLocal, mRemote, mergedAgain>>

\* mergeIssues(merged, remote): the same remote merged a second time
CallMergeAgain ==
  /\ mpc = "merged"
  /\ mergedAgain' = mergeIssues(merged, mRemote)
  /\ mpc' = "remerged"
  /\ UNCHANGED <<mLocal, mRemote, merged>>

MergeNext ==
  \/ CallMerge /\ UNCHANGED <<routeVars, scoreVars, scrapeVars, appVars, resolverVars, sideVars>>
  \/ CallMergeAgain /\ UNCHANGED <<routeVars, scoreVars, scrapeVars, appVars, resolverVars, sideVars>>

\* ------------------------------------------------------------------ route
RouteIdle ==
  /\ rpc = "idle"
  /\ hashRaw = <<>>
  /\ parsedRoute = HomeRoute

RouteInit ==
  /\ rpc = "start"
  /\ hashRaw \in SeqsUpTo(HashTokens, MaxHashLen)
  /\ parsedRoute = HomeRoute

CallParseHash ==
  /\ rpc = "start"
  /\ parsedRoute' = parseHashFromString(hashRaw)
  /\ rpc' = "parsed"
  /\ UNCHANGED hashRaw

RouteNext == CallParseHash /\ UNCHANGED <<mergeVars, scoreVars, scrapeVars, appVars, resolverVars, sideVars>>

\* ------------------------------------------------------------------ score
ScoreIdle ==
  /\ spc = "idle"
  /\ scoreUrl = EmptyUrl
  /\ score = 0

ScoreInit ==
  /\ spc = "start"
  /\ scoreUrl \in {<<"https://h/">> \o path : path \in SeqsUpTo(PathTokens, MaxUrlLen)}
  /\ score = 0

CallScoreImage ==
  /\ spc = "start"
  /\ score' = scoreImage(scoreUrl)
  /\ spc' = "scored"
  /\ UNCHANGED scoreUrl

ScoreNext == CallScoreImage /\ UNCHANGED <<mergeVars, routeVars, scrapeVars, appVars, resolverVars, sideVars>>

\* ------------------------------------------------------------------ scrape
ScrapeIdle ==
  /\ xpc = "idle"
  /\ xUrl = ""
  /\ xResp = [kind |-> "reject", ok |-> FALSE, html |-> <<>>]
  /\ xCandidates = <<>>
  /\ xResult = NoImage

ScrapeInit ==
  /\ xpc = "start"
  /\ xUrl \in {"a1", BadArticle}
  /\ xResp \in Responses
  /\ xCandidates = <<>>
  /\ xResult = NoImage

\* const s = await resolveArticleImage(url); xCandidates records the
\* function's local `candidates` (empty when the function returns before it)
CallResolveArticleImage ==
  /\ xpc = "start"
  /\ xResult' = resolveArticleImage(xUrl, xResp)
  /\ xCandidates' =
       IF Parseable(xUrl) /\ xResp.kind = "response" /\ xResp.ok
       THEN Candidates(xResp.html, xUrl) ELSE <<>>
  /\ xpc' = "resolved"
  /\ UNCHANGED <<xUrl, xResp>>

ScrapeNext ==
  CallResolveArticleImage /\ UNCHANGED <<mergeVars, routeVars, scoreVars, appVars, resolverVars, sideVars>>

\* ------------------------------------------------------------------ app
NoFile == <<>>

AppIdle ==
  /\ data = bootstrapData
  /\ persisted = JSONstringify(bootstrapData)
  /\ route = HomeRoute
  /\ manifest = "idle"
  /\ nFiles = 0
  /\ filesFailed = 0
  /\ inflight = [id \in AppIds |-> 0]
  /\ fetchCount = 0
  /\ isAdmin = FALSE
  /\ showImporter = FALSE
  /\ text = EmptyText
  /\ error = NoError
  /\ exported = NoFile
  /\ lastOp = "none"
  /\ racedImport = FALSE

\* The first render and its effects, on a first visit (nothing persisted):
\* useLocalData starts from bootstrapData and persists it, the route is parsed
\* from the address bar, the manifest fetch is under way, and the on-demand
\* effect has fetched the issue of the route if the store lacks it.
AppInit ==
  /\ data = bootstrapData
  /\ persisted = JSONstringify(bootstrapData)
  /\ route \in {parseHashFromString(h) : h \in {HomeHash} \cup {IssueHash(id) : id \in AppIds}}
  /\ manifest = "pending"
  /\ nFiles = 0
  /\ filesFailed = 0
  /\ inflight = [id \in AppIds |->
                   IF NeedsFetch(route, data) /\ route.params[1][1] = id THEN 1 ELSE 0]
  /\ fetchCount = (IF NeedsFetch(route, data) THEN 1 ELSE 0)
  /\ isAdmin \in BOOLEAN
  /\ showImporter = FALSE
  /\ text = EmptyText
  /\ error = NoError
  /\ exported = NoFile
  /\ lastOp = "none"
  /\ racedImport = FALSE

\* The on-demand effect, which runs after a render in which route, params or
\* data changed: it fetches /content/<id>.json when the route is an issue the
\* store lacks.
OnDemandEffect(r, issues) ==
  IF NeedsFetch(r, issues)
  THEN /\ fetchCount < MaxFetches
       /\ inflight' = [inflight EXCEPT ![r.params[1][1]] = @ + 1]
       /\ fetchCount' = fetchCount + 1
  ELSE UNCHANGED <<inflight, fetchCount>>

\* mutant of SetData: the store changes and nothing is written to localStorage
SetDataUnsaved(issues) ==
  /\ data' = issues
  /\ UNCHANGED persisted
  /\ OnDemandEffect(route, issues)

\* setData(updater) and the effects of the render that follows: useLocalData
\* writes the whole store to localStorage, the on-demand effect runs again
SetData(issues) ==
  /\ data' = issues
  /\ persisted' = JSONstringify(issues)
  /\ OnDemandEffect(route, issues)

importerVars == <<isAdmin, showImporter, text, error, exported>>

\* what fetch(url) settles to, as far as fetchJSON looks: a rejection, or a
\* response with its res.ok and whether its body parses as JSON
FetchResults ==
  {[kind |-> "reject", ok |-> FALSE, json |-> FALSE]}
  \cup [kind : {"response"}, ok : BOOLEAN, json : BOOLEAN]

\* fetchJSON throws: fetch rejected, !res.ok, or res.json() rejected
fetchJSONThrows(res) == res.kind = "reject" \/ ~res.ok \/ ~res.json

\* mutant of ManifestFailed: the failure is reported to the user
ManifestFailedSurfaced ==
  /\ manifest = "pending"
  /\ manifest' = "failed"
  /\ error' = <<"manifest fetch failed">>
  /\ UNCHANGED <<data, persisted, route, nFiles, filesFailed, inflight, fetchCount, lastOp, racedImport>>
  /\ UNCHANGED <<isAdmin, showImporter, text, exported>>

\* fetchJSON("/content/index.json") throws because the fetch failed or the
\* status is no success: the catch of the manifest effect swallows it
ManifestFailed ==
  /\ manifest = "pending"
  /\ \E res \in FetchResults :
       /\ res.kind = "reject" \/ ~res.ok
       /\ fetchJSONThrows(res)
  /\ manifest' = "failed"
  /\ UNCHANGED <<data, persisted, route, nFiles, filesFailed, inflight, fetchCount, lastOp, racedImport>>
  /\ UNCHANGED importerVars

\* the manifest's body is no JSON (fetchJSON throws), or the manifest has
\* neither an issues array nor a non-empty files array
ManifestIgnored ==
  /\ manifest = "pending"
  /\ manifest' = "done"
  /\ UNCHANGED <<data, persisted, route, nFiles, filesFailed, inflight, fetchCount, lastOp, racedImport>>
  /\ UNCHANGED importerVars

\* a remote fetch has been started and has not settled
FetchInFlight == manifest \in {"pending", "files"} \/ \E id \in AppIds : inflight[id] > 0

\* mutant of ManifestIssuesWith: the store is set from the store that the
\* effect's closure saw at mount, not by an updater function
ManifestIssuesStalePrev(payload) ==
  /\ manifest = "pending"
  /\ SetData(mergeIssues(bootstrapData, payload))
  /\ manifest' = "done"
  /\ lastOp' = "remote"
  /\ UNCHANGED racedImport
  /\ UNCHANGED <<route, nFiles, filesFailed>>
  /\ UNCHANGED importerVars

\* the manifest embeds the issues array payload
ManifestIssuesWith(payload) ==
  /\ manifest = "pending"
  /\ SetData(mergeIssues(data, payload))
  /\ manifest' = "done"
  /\ lastOp' = "remote"
  /\ UNCHANGED racedImport
  /\ UNCHANGED <<route, nFiles, filesFailed>>
  /\ UNCHANGED importerVars

\* the manifest embeds an issues array
ManifestIssues == \E payload \in Payloads : ManifestIssuesWith(payload)

\* the manifest lists files: all of them are fetched
ManifestFiles ==
  /\ manifest = "pending"
  /\ \E n \in 1..MaxFiles : nFiles' = n
  /\ manifest' = "files"
  /\ UNCHANGED <<data, persisted, route, filesFailed, inflight, fetchCount, lastOp, racedImport>>
  /\ UNCHANGED importerVars

\* what one file's fetch settles to: null (it failed), or its payload
FileFailed == [failed |-> TRUE, issuesArray |-> FALSE, issues |-> <<>>]
FilePayloads ==
  {FileFailed}
  \cup [failed : {FALSE}, issuesArray : {TRUE}, issues : SeqsUpTo(PayloadIssues, 1)]
  \cup {[failed |-> FALSE, issuesArray |-> FALSE, issues |-> <<>>]}

\* mutant of PushAll: nothing is taken after a failed file
RECURSIVE PushAllUntilFailure(_)
PushAllUntilFailure(payloads) ==
  IF payloads = <<>> \/ Head(payloads).failed THEN <<>>
  ELSE (IF Head(payloads).issuesArray THEN Head(payloads).issues ELSE <<>>)
       \o PushAllUntilFailure(Tail(payloads))

\* for (const p of payloads) if (p && Array.isArray(p.issues)) mergedIssues.push(...p.issues)
RECURSIVE PushAll(_)
PushAll(payloads) ==
  IF payloads = <<>> THEN <<>>
  ELSE (IF ~Head(payloads).failed /\ Head(payloads).issuesArray
        THEN Head(payloads).issues ELSE <<>>)
       \o PushAll(Tail(payloads))

\* Promise.all settles with these payloads: the files' issues are concatenated
\* and merged
FilesSettledWith(payloads) ==
  /\ manifest = "files"
  /\ LET mergedIssues == PushAll(payloads)
     IN IF mergedIssues # <<>>
        THEN SetData(mergeIssues(data, mergedIssues)) /\ lastOp' = "remote" /\ UNCHANGED racedImport
        ELSE UNCHANGED <<data, persisted, inflight, fetchCount, lastOp, racedImport>>
  /\ manifest' = "done"
  /\ nFiles' = 0
  /\ filesFailed' = Cardinality({k \in DOMAIN payloads : payloads[k].failed})
  /\ UNCHANGED route
  /\ UNCHANGED importerVars

\* every listed file is fetched; each fetch fails or brings a payload
FilesSettled ==
  \E payloads \in [1..nFiles -> FilePayloads] : FilesSettledWith(payloads)

\* hashchange: the address bar shows the archive or an issue
HashChange ==
  /\ \E h \in {HomeHash} \cup {IssueHash(id) : id \in AppIds} :
       /\ parseHashFromString(h) # route
       /\ route' = parseHashFromString(h)
       /\ OnDemandEffect(parseHashFromString(h), data)
  /\ UNCHANGED <<data, persisted, manifest, nFiles, filesFailed, lastOp, racedImport>>
  /\ UNCHANGED importerVars

\* fetchJSON(`/content/${id}.json`) throws, or the payload has no issues
OnDemandIgnored ==
  /\ \E id \in AppIds :
       /\ inflight[id] > 0
       /\ inflight' = [inflight EXCEPT ![id] = @ - 1]
  /\ UNCHANGED <<data, persisted, route, manifest, nFiles, filesFailed, fetchCount, lastOp, racedImport>>
  /\ UNCHANGED importerVars

\* the fetch of /content/<id>.json brings this payload, whose issues array is
\* not empty: it is merged, and the on-demand effect runs again
OnDemandArrives(id, payload) ==
  /\ inflight[id] > 0
  /\ payload # <<>>
  /\ LET issues == mergeIssues(data, payload)
     IN /\ data' = issues
        /\ persisted' = JSONstringify(issues)
        /\ IF NeedsFetch(route, issues)
           THEN /\ fetchCount < MaxFetches
                /\ inflight' = [inflight EXCEPT ![id] = @ - 1,
                                                ![route.params[1][1]] = @ + 1]
                /\ fetchCount' = fetchCount + 1
           ELSE /\ inflight' = [inflight EXCEPT ![id] = @ - 1]
                /\ UNCHANGED fetchCount
  /\ lastOp' = "remote"
  /\ UNCHANGED racedImport
  /\ UNCHANGED <<route, manifest, nFiles, filesFailed>>
  /\ UNCHANGED importerVars

\* the per-issue resource arrives with a non-empty issues array
OnDemandIssues ==
  \E id \in AppIds, payload \in Payloads : OnDemandArrives(id, payload)

remoteVars == <<route, manifest, nFiles, filesFailed>>
storeVars == <<data, persisted, inflight, fetchCount, lastOp, racedImport>>

\* the admin clicks the import button of the header
OpenImporter ==
  /\ isAdmin
  /\ ~showImporter
  /\ showImporter' = TRUE
  /\ text' = EmptyText
  /\ error' = NoError
  /\ UNCHANGED <<isAdmin, exported>>
  /\ UNCHANGED storeVars
  /\ UNCHANGED remoteVars

\* close(): the dialog is unmounted, its text and error with it
CloseImporter ==
  /\ showImporter /\ isAdmin
  /\ showImporter' = FALSE
  /\ text' = EmptyText
  /\ error' = NoError
  /\ UNCHANGED <<isAdmin, exported>>
  /\ UNCHANGED storeVars
  /\ UNCHANGED remoteVars

\* the admin pastes a text, or the content of the exported file, into the
\* textarea of a dialog that shows no error
SetText ==
  /\ showImporter /\ isAdmin
  /\ error = NoError
  /\ \E t \in ImportTexts \cup (IF exported = NoFile THEN {} ELSE {exported[1]}) :
       /\ t # text
       /\ text' = t
  /\ UNCHANGED <<isAdmin, showImporter, error, exported>>
  /\ UNCHANGED storeVars
  /\ UNCHANGED remoteVars

\* handleImport: the text is rejected with an inline error, or applied
HandleImport ==
  /\ showImporter /\ isAdmin
  /\ IF ImportCheck(text) # NoError
     THEN /\ error' = ImportCheck(text)
          /\ UNCHANGED <<showImporter, text>>
          /\ UNCHANGED storeVars
     ELSE /\ SetData(onImport(data, JSONparse(text).issues))
          /\ lastOp' = (IF exported # NoFile /\ text = exported[1]
                        THEN "import of the export" ELSE "import")
          /\ racedImport' = (racedImport \/ FetchInFlight)
          /\ showImporter' = FALSE
          /\ text' = EmptyText
          /\ error' = NoError
  /\ UNCHANGED <<isAdmin, exported>>
  /\ UNCHANGED remoteVars

\* downloadJSON(STORAGE_KEY, data): the admin clicks the export button of the
\* header (the open dialog's overlay covers the header)
Export ==
  /\ isAdmin
  /\ ~showImporter
  /\ exported' = <<JSONstringify(data)>>
  /\ exported' # exported
  /\ UNCHANGED <<isAdmin, showImporter, text, error>>
  /\ UNCHANGED storeVars
  /\ UNCHANGED remoteVars

pureVars == <<mergeVars, routeVars, scoreVars, scrapeVars, resolverVars, sideVars>>

AppNext ==
  \/ ManifestFailed /\ UNCHANGED pureVars
  \/ ManifestIgnored /\ UNCHANGED pureVars
  \/ ManifestIssues /\ UNCHANGED pureVars
  \/ ManifestFiles /\ UNCHANGED pureVars
  \/ FilesSettled /\ UNCHANGED pureVars
  \/ HashChange /\ UNCHANGED pureVars
  \/ OnDemandIgnored /\ UNCHANGED pureVars
  \/ OnDemandIssues /\ UNCHANGED pureVars
  \/ OpenImporter /\ UNCHANGED pureVars
  \/ CloseImporter /\ UNCHANGED pureVars
  \/ SetText /\ UNCHANGED pureVars
  \/ HandleImport /\ UNCHANGED pureVars

\* an admin's session on the archive page, with exports
ExportNext ==
  \/ ManifestFailed /\ UNCHANGED pureVars
  \/ ManifestIgnored /\ UNCHANGED pureVars
  \/ ManifestIssues /\ UNCHANGED pureVars
  \/ ManifestFiles /\ UNCHANGED pureVars
  \/ FilesSettled /\ UNCHANGED pureVars
  \/ OpenImporter /\ UNCHANGED pureVars
  \/ CloseImporter /\ UNCHANGED pureVars
  \/ SetText /\ UNCHANGED pureVars
  \/ HandleImport /\ UNCHANGED pureVars
  \/ Export /\ UNCHANGED pureVars

\* ------------------------------------------------------------------ resolver
\* useResolvedImage of part_001: the img state starts from initial(), the
\* effect runs after the render that mounted the view or changed one of its
\* dependencies [firstUrl, item?.image?.src], and the scrape it may start
\* settles later. captions are left out: no code reads them.
MaxViews == 2
MaxScrapes == 2
MaxChanges == 2

Views == 1..MaxViews

\* firstUrl of an item without links
NoLink == ""

LinkUrls == {NoLink} \cup GoodArticles \cup {BadArticle}

\* item?.image?.src || "": none, a usable one, a logo
ExplicitSrcs ==
  {EmptyUrl, <<"https://h/", "hero", ".jpg">>, <<"https://h/", "logo", "hero", ".jpg">>}

\* the items displayed: [src, firstUrl] is all the resolver reads of an item
Items ==
  {it \in [src : ExplicitSrcs, firstUrl : LinkUrls] :
     \/ it.src = EmptyUrl
     \/ it.firstUrl = "a1"}

NoItem == [src |-> EmptyUrl, firstUrl |-> "<no item>"]

\* the test of initial() and of the effect on the explicit image
ValidExplicit(src) == src # EmptyUrl /\ ~isLogoish(src) /\ ~isBadExt(src)

\* randomUnsplash(1200, 800); "sig" stands for the random number, which no
\* code reads
randomUnsplash == <<"https://source.unsplash.com/random/", "1200x800", "sig">>

Placeholder ==
  [src |-> randomUnsplash, credit |-> "Unsplash", href |-> "https://unsplash.com/t/wallpapers"]

ExplicitImage(src) ==
  [src |-> src, credit |-> "item.image.credit", href |-> "item.image.href || src"]

initial(item) ==
  IF ValidExplicit(item.src) THEN ExplicitImage(item.src) ELSE Placeholder

\* the image both setImg calls of the effect build
OGImage(src, firstUrl) == [src |-> src, credit |-> "OG", href |-> firstUrl]

NoImg == [src |-> EmptyUrl, credit |-> "", href |-> ""]

NoScrape == [view |-> 0, url |-> NoLink, alive |-> FALSE]

\* what the proxy may answer to a scrape started by a view
ScrapeResponses ==
  {r \in Responses :
     \/ r.kind = "reject"
     \/ ~r.ok
     \/ /\ Len(r.html) = 1
        /\ r.html[1].tag = "img"
        /\ r.html[1].url \in {<<"https://h/", "hero", ".jpg">>,
                              <<"x", "hero", ".jpg">>,
                              <<"https://h/", "logo", "hero", ".jpg">>}}

\* loadImgCache() of a cache nothing was saved to
EmptyCache == [u \in LinkUrls \ {NoLink} |-> EmptyUrl]

\* the effect's cleanup: alive = false in the closure of every scrape the
\* view started
Cleanup(v, s) ==
  [k \in DOMAIN s |-> IF s[k].view = v THEN [s[k] EXCEPT !.alive = FALSE] ELSE s[k]]

FreeSlots == {k \in DOMAIN scrapes : scrapes[k] = NoScrape}

\* nothing done yet by an evaluation
NoOps == [lookups |-> 0, scrapes |-> 0, writes |-> 0]

\* mutant of CacheHit: the cache is never used
CacheHitNever(cache, url) == FALSE

\* if (cache[firstUrl])
CacheHit(cache, url) == cache[url] # EmptyUrl

\* mutant of CacheWrite: nothing is saved
CacheWriteNothing(cache, url, src) == cache

\* mutant of CacheWrite: a map with the new entry alone is saved
CacheWriteOnlyEntry(cache, url, src) ==
  [u \in DOMAIN cache |-> IF u = url THEN src ELSE EmptyUrl]

\* mutant of CacheWrite: an entry that exists is kept
CacheWriteIfAbsent(cache, url, src) ==
  IF cache[url] # EmptyUrl THEN cache ELSE [cache EXCEPT ![url] = src]

\* nextCache[firstUrl] = s; saveImgCache(nextCache)
CacheWrite(cache, url, src) == [cache EXCEPT ![url] = src]

ResolverIdle ==
  /\ vItem = [v \in Views |-> NoItem]
  /\ vImg = [v \in Views |-> NoImg]
  /\ vEval = [v \in Views |-> "idle"]
  /\ vTerminal = [v \in Views |-> {}]
  /\ vOps = [v \in Views |-> NoOps]
  /\ lateSettled = FALSE
  /\ rerendered = FALSE
  /\ scrapes = [k \in 1..MaxScrapes |-> NoScrape]
  /\ imgCache = EmptyCache
  /\ nChanges = 0

\* no item is displayed and nothing was cached
ResolverInit ==
  /\ vItem = [v \in Views |-> NoItem]
  /\ vImg = [v \in Views |-> NoImg]
  /\ vEval = [v \in Views |-> "unmounted"]
  /\ vTerminal = [v \in Views |-> {}]
  /\ vOps = [v \in Views |-> NoOps]
  /\ lateSettled = FALSE
  /\ rerendered = FALSE
  /\ scrapes = [k \in 1..MaxScrapes |-> NoScrape]
  /\ imgCache = EmptyCache
  /\ nChanges = 0

\* an ItemBlock is mounted: useState(initial), and the effect is scheduled
Mount(v, item) ==
  /\ vEval[v] = "unmounted"
  /\ vItem' = [vItem EXCEPT ![v] = item]
  /\ vImg' = [vImg EXCEPT ![v] = initial(item)]
  /\ vEval' = [vEval EXCEPT ![v] = "effect"]
  /\ vTerminal' = [vTerminal EXCEPT ![v] = {}]
  /\ vOps' = [vOps EXCEPT ![v] = NoOps]
  /\ lateSettled' = FALSE
  /\ rerendered' = FALSE
  /\ UNCHANGED <<scrapes, imgCache, nChanges>>

\* the body of the effect, up to the first await
RunEffect(v) ==
  /\ vEval[v] = "effect"
  /\ LET item == vItem[v]
         cache == imgCache
     IN IF ValidExplicit(item.src)
        THEN /\ vEval' = [vEval EXCEPT ![v] = "done"]
             /\ vTerminal' = [vTerminal EXCEPT ![v] = @ \cup {"explicit"}]
             /\ UNCHANGED <<vImg, scrapes, vOps>>
        ELSE IF item.firstUrl = NoLink
        THEN /\ vEval' = [vEval EXCEPT ![v] = "done"]
             /\ vTerminal' = [vTerminal EXCEPT ![v] = @ \cup {"placeholder"}]
             /\ vOps' = [vOps EXCEPT ![v].lookups = @ + 1]
             /\ UNCHANGED <<vImg, scrapes>>
        ELSE IF CacheHit(cache, item.firstUrl)
        THEN /\ vImg' = [vImg EXCEPT ![v] = OGImage(cache[item.firstUrl], item.firstUrl)]
             /\ vEval' = [vEval EXCEPT ![v] = "done"]
             /\ vTerminal' = [vTerminal EXCEPT ![v] = @ \cup {"cache-hit"}]
             /\ vOps' = [vOps EXCEPT ![v].lookups = @ + 1]
             /\ UNCHANGED scrapes
        ELSE /\ FreeSlots # {}
             /\ scrapes' = [scrapes EXCEPT ![Min(FreeSlots)] =
                              [view |-> v, url |-> item.firstUrl, alive |-> TRUE]]
             /\ vEval' = [vEval EXCEPT ![v] = "scraping"]
             /\ vOps' = [vOps EXCEPT ![v].lookups = @ + 1, ![v].scrapes = @ + 1]
             /\ UNCHANGED <<vImg, vTerminal>>
  /\ lateSettled' = FALSE
  /\ rerendered' = FALSE
  /\ UNCHANGED <<vItem, imgCache, nChanges>>

\* mutant of ScrapeSettlesWith: the result is used whether or not the
\* evaluation that asked for it is still current
ScrapeSettlesIgnoringAlive(k, s) ==
  /\ scrapes[k] # NoScrape
  /\ LET sc == scrapes[k]
         v == sc.view
     IN IF ~s.threw /\ s.value # EmptyUrl
        THEN /\ imgCache' = CacheWrite(imgCache, sc.url, s.value)
             /\ vImg' = [vImg EXCEPT ![v] = OGImage(s.value, sc.url)]
        ELSE UNCHANGED <<vImg, imgCache>>
  /\ scrapes' = [scrapes EXCEPT ![k] = NoScrape]
  /\ lateSettled' = ~scrapes[k].alive
  /\ rerendered' = FALSE
  /\ UNCHANGED <<vItem, vEval, vTerminal, vOps, nChanges>>

\* mutant of ScrapeSettlesWith: a scrape without a result caches the image
\* the view shows
ScrapeSettlesCachingShown(k, s) ==
  /\ scrapes[k] # NoScrape
  /\ LET sc == scrapes[k]
         v == sc.view
     IN IF ~sc.alive
        THEN UNCHANGED <<vImg, imgCache, vEval, vTerminal, vOps>>
        ELSE IF ~s.threw /\ s.value # EmptyUrl
        THEN /\ imgCache' = CacheWrite(imgCache, sc.url, s.value)
             /\ vImg' = [vImg EXCEPT ![v] = OGImage(s.value, sc.url)]
             /\ vEval' = [vEval EXCEPT ![v] = "done"]
             /\ vTerminal' = [vTerminal EXCEPT ![v] = @ \cup {"scraped"}]
             /\ vOps' = [vOps EXCEPT ![v].writes = @ + 1]
        ELSE /\ imgCache' = CacheWrite(imgCache, sc.url, vImg[v].src)
             /\ vEval' = [vEval EXCEPT ![v] = "done"]
             /\ vTerminal' = [vTerminal EXCEPT ![v] = @ \cup {"placeholder"}]
             /\ UNCHANGED <<vImg, vOps>>
  /\ scrapes' = [scrapes EXCEPT ![k] = NoScrape]
  /\ lateSettled' = ~scrapes[k].alive
  /\ rerendered' = FALSE
  /\ UNCHANGED <<vItem, nChanges>>

\* await resolveArticleImage(firstUrl) settles and the rest of the async
\* function runs, catch included
ScrapeSettlesWith(k, s) ==
  /\ scrapes[k] # NoScrape
  /\ LET sc == scrapes[k]
         v == sc.view
     IN IF s.threw
        THEN /\ UNCHANGED <<vImg, imgCache, vOps>>
             /\ IF sc.alive
                THEN /\ vEval' = [vEval EXCEPT ![v] = "done"]
                     /\ vTerminal' = [vTerminal EXCEPT ![v] = @ \cup {"placeholder"}]
                ELSE UNCHANGED <<vEval, vTerminal>>
        ELSE IF ~sc.alive
        THEN UNCHANGED <<vImg, imgCache, vEval, vTerminal, vOps>>
        ELSE IF s.value # EmptyUrl
        THEN /\ imgCache' = CacheWrite(imgCache, sc.url, s.value)
             /\ vImg' = [vImg EXCEPT ![v] = OGImage(s.value, sc.url)]
             /\ vEval' = [vEval EXCEPT ![v] = "done"]
             /\ vTerminal' = [vTerminal EXCEPT ![v] = @ \cup {"scraped"}]
             /\ vOps' = [vOps EXCEPT ![v].writes = @ + 1]
        ELSE /\ vEval' = [vEval EXCEPT ![v] = "done"]
             /\ vTerminal' = [vTerminal EXCEPT ![v] = @ \cup {"placeholder"}]
             /\ UNCHANGED <<vImg, imgCache, vOps>>
  /\ scrapes' = [scrapes EXCEPT ![k] = NoScrape]
  /\ lateSettled' = ~scrapes[k].alive
  /\ rerendered' = FALSE
  /\ UNCHANGED <<vItem, nChanges>>

\* const s = await resolveArticleImage(firstUrl), the proxy answering resp
ScrapeSettles(k, resp) ==
  /\ scrapes[k] # NoScrape
  /\ ScrapeSettlesWith(k, resolveArticleImage(scrapes[k].url, resp))

\* mutant of DepsChanged: the effect has no dependency array
DepsChangedAlways(old, new) == TRUE

\* }, [firstUrl, item?.image?.src]): Object.is on each dependency
DepsChanged(old, new) == old.firstUrl # new.firstUrl \/ old.src # new.src

\* the issue page renders another issue, or the displayed issue was replaced
\* in the store: the ItemBlock with key={idx} stays mounted and gets another
\* item. The img state stays, the cleanup of the earlier effect runs and the
\* effect is scheduled again, a dependency having changed.
ChangeItem(v, item) ==
  /\ vEval[v] \in {"scraping", "done"}
  /\ nChanges < MaxChanges
  /\ DepsChanged(vItem[v], item)
  /\ vItem' = [vItem EXCEPT ![v] = item]
  /\ scrapes' = Cleanup(v, scrapes)
  /\ vEval' = [vEval EXCEPT ![v] = "effect"]
  /\ vTerminal' = [vTerminal EXCEPT ![v] = {}]
  /\ vOps' = [vOps EXCEPT ![v] = NoOps]
  /\ lateSettled' = FALSE
  /\ rerendered' = FALSE
  /\ nChanges' = nChanges + 1
  /\ UNCHANGED <<vImg, imgCache>>

\* the ItemBlock renders again (its img state or a parent's state changed)
\* with an item of the same first link and image src: no dependency changed,
\* so neither the cleanup nor the effect runs
Rerender(v, item) ==
  /\ vEval[v] \in {"scraping", "done"}
  /\ ~DepsChanged(vItem[v], item)
  /\ vItem' = [vItem EXCEPT ![v] = item]
  /\ lateSettled' = FALSE
  /\ rerendered' = TRUE
  /\ UNCHANGED <<vImg, vEval, vTerminal, vOps, scrapes, imgCache, nChanges>>

\* the ItemBlock is removed: the cleanup runs and the state is dropped
Unmount(v) ==
  /\ vEval[v] \in {"scraping", "done"}
  /\ nChanges < MaxChanges
  /\ vItem' = [vItem EXCEPT ![v] = NoItem]
  /\ vImg' = [vImg EXCEPT ![v] = NoImg]
  /\ scrapes' = Cleanup(v, scrapes)
  /\ vEval' = [vEval EXCEPT ![v] = "unmounted"]
  /\ vTerminal' = [vTerminal EXCEPT ![v] = {}]
  /\ vOps' = [vOps EXCEPT ![v] = NoOps]
  /\ lateSettled' = FALSE
  /\ rerendered' = FALSE
  /\ nChanges' = nChanges + 1
  /\ UNCHANGED imgCache

otherVars == <<mergeVars, routeVars, scoreVars, scrapeVars, appVars, sideVars>>

ResolverNext ==
  \/ (\E v \in Views, item \in Items : Mount(v, item)) /\ UNCHANGED otherVars
  \/ (\E v \in Views : RunEffect(v)) /\ UNCHANGED otherVars
  \/ (\E k \in 1..MaxScrapes, resp \in ScrapeResponses : ScrapeSettles(k, resp))
       /\ UNCHANGED otherVars
  \/ (\E v \in Views, item \in Items : ChangeItem(v, item)) /\ UNCHANGED otherVars
  \/ (\E v \in Views, item \in Items : Rerender(v, item)) /\ UNCHANGED otherVars
  \/ (\E v \in Views : Unmount(v)) /\ UNCHANGED otherVars

\* ------------------------------------------------------------------ admin
\* strings whose blanks matter: sequences of the tokens " ", "k", "j"
Blank == " "

\* String.prototype.trim
RECURSIVE TrimLeft(_)
TrimLeft(str) ==
  IF str # <<>> /\ Head(str) = Blank THEN TrimLeft(Tail(str)) ELSE str

RECURSIVE TrimRight(_)
TrimRight(str) ==
  IF str # <<>> /\ str[Len(str)] = Blank
  THEN TrimRight(SubSeq(str, 1, Len(str) - 1)) ELSE str

trim(str) == TrimRight(TrimLeft(str))

\* import.meta?.env?.VITE_ADMIN_KEY || "": unset, blank, a key, a key with
\* blanks around it
EnvKeys == {<<>>, <<Blank>>, <<"k">>, <<Blank, "k", Blank>>}

\* URLSearchParams.get: null when the parameter is absent
Null == <<"<null>">>

UrlKeys == {Null, <<>>, <<"k">>, <<"j">>, <<Blank, "k", Blank>>}

UrlAdmins == {Null, <<"1">>, <<"0">>}

\* x || ""
OrEmpty(x) == IF x = Null THEN <<>> ELSE x

AdminOkFlagAlways(env, key, admin) ==
  admin = <<"1">> \/ OrEmpty(key) = trim(env)

\* the ok of useAdmin's effect
AdminOk(env, key, admin) ==
  LET urlKeyValue == OrEmpty(key)
      enableFlag == (admin = <<"1">>)
      envKeyValue == trim(env)
  IN IF envKeyValue # <<>> THEN urlKeyValue = envKeyValue ELSE enableFlag

\* {showImporter && isAdmin && <Importer .../>}
ImporterShown == adminShow /\ adminState

AdminIdle ==
  /\ envKey = <<>>
  /\ adminStored = Null
  /\ apc = "idle"
  /\ urlKey = Null
  /\ urlAdmin = Null
  /\ adminState = FALSE
  /\ adminShow = FALSE
  /\ visits = <<>>

\* a browser that never visited: nothing stored, some build of the application
AdminInit ==
  /\ envKey \in EnvKeys
  /\ adminStored = Null
  /\ apc = "closed"
  /\ urlKey = Null
  /\ urlAdmin = Null
  /\ adminState = FALSE
  /\ adminShow = FALSE
  /\ visits = <<>>

\* the page is opened: useState's initialiser reads localStorage, first render
Visit(key, admin) ==
  /\ apc = "closed"
  /\ Len(visits) < MaxVisits
  /\ urlKey' = key
  /\ urlAdmin' = admin
  /\ adminState' = (adminStored = <<"1">>)
  /\ adminShow' = FALSE
  /\ apc' = "rendered"
  /\ UNCHANGED <<envKey, adminStored, visits>>

\* the effect of useAdmin, once per visit
AdminEffect ==
  /\ apc = "rendered"
  /\ IF AdminOk(envKey, urlKey, urlAdmin)
     THEN adminState' = TRUE /\ adminStored' = <<"1">>
     ELSE UNCHANGED <<adminState, adminStored>>
  /\ visits' = Append(visits, [key |-> urlKey, admin |-> urlAdmin])
  /\ apc' = "ready"
  /\ UNCHANGED <<envKey, urlKey, urlAdmin, adminShow>>

\* the import button of the header, rendered only when isAdmin
ClickImport ==
  /\ apc = "ready"
  /\ adminState
  /\ ~adminShow
  /\ adminShow' = TRUE
  /\ UNCHANGED <<envKey, adminStored, apc, urlKey, urlAdmin, adminState, visits>>

\* close() of the dialog
ClickClose ==
  /\ apc = "ready"
  /\ ImporterShown
  /\ adminShow' = FALSE
  /\ UNCHANGED <<envKey, adminStored, apc, urlKey, urlAdmin, adminState, visits>>

\* the page is closed: the React state is gone, localStorage stays
Leave ==
  /\ apc = "ready"
  /\ apc' = "closed"
  /\ adminState' = FALSE
  /\ adminShow' = FALSE
  /\ UNCHANGED <<envKey, adminStored, urlKey, urlAdmin, visits>>

nonAdminVars ==
  <<mergeVars, routeVars, scoreVars, scrapeVars, appVars, resolverVars, fallbackVars>>

AdminNext ==
  \/ (\E key \in UrlKeys, admin \in UrlAdmins : Visit(key, admin)) /\ UNCHANGED nonAdminVars
  \/ AdminEffect /\ UNCHANGED nonAdminVars
  \/ ClickImport /\ UNCHANGED nonAdminVars
  \/ ClickClose /\ UNCHANGED nonAdminVars
  \/ Leave /\ UNCHANGED nonAdminVars

\* ------------------------------------------------------------------ fallback
\* the random numbers Math.floor(Math.random() * 1e9) may give
Sigs == {"sig1", "sig2"}

\* the w and h the two onError handlers pass
SizeOf(kind) == IF kind = "card" THEN "1280x720" ELSE "1200x800"

\* mutant of placeholderChain: the neutral graphic comes first
placeholderChainSvgFirst(size, sig) ==
  <<[service |-> "svg", size |-> size, sig |-> "none"],
    [service |-> "unsplash", size |-> size, sig |-> sig],
    [service |-> "picsum", size |-> size, sig |-> sig]>>

\* placeholderChain(w, h), with the sig it drew
placeholderChain(size, sig) ==
  <<[service |-> "unsplash", size |-> size, sig |-> sig],
    [service |-> "picsum", size |-> size, sig |-> sig],
    [service |-> "svg", size |-> size, sig |-> "none"]>>

\* the src props React may give the element: a resolved image
OriginalSrcs == [service : {"original"}, size : {"any"}, sig : {"o1", "o2"}]

\* String(n) and parseInt(s, 10) on the indices the handler writes
String(n) == CASE n = 0 -> "0" [] n = 1 -> "1" [] n = 2 -> "2" [] n = 3 -> "3" [] OTHER -> "4"
parseInt(str) ==
  CASE str = "0" -> 0 [] str = "1" -> 1 [] str = "2" -> 2 [] str = "3" -> 3 [] OTHER -> 4

\* imgEl.dataset.fidx || "0"
FidxOrZero(fidx) == IF fidx = Undefined THEN "0" ELSE fidx

FallbackIdle ==
  /\ fKind = "none"
  /\ fProp = [service |-> "none", size |-> "any", sig |-> "none"]
  /\ fSrc = fProp
  /\ fIdx = Undefined
  /\ fHidden = FALSE
  /\ fStatus = "idle"
  /\ fErrors = 0
  /\ fChanges = 0

\* the element is created with the src prop and starts loading it
FallbackInit ==
  /\ fKind \in {"card", "item"}
  /\ fProp \in OriginalSrcs
  /\ fSrc = fProp
  /\ fIdx = Undefined
  /\ fHidden = FALSE
  /\ fStatus = "loading"
  /\ fErrors = 0
  /\ fChanges = 0

\* the load event
ImgLoaded ==
  /\ fStatus = "loading"
  /\ ~fHidden
  /\ fStatus' = "loaded"
  /\ fErrors' = 0
  /\ UNCHANGED <<fKind, fProp, fSrc, fIdx, fHidden, fChanges>>

\* the error event: setNextFallback(e.currentTarget, w, h)
ImgError ==
  /\ fStatus = "loading"
  /\ ~fHidden
  /\ \E sig \in Sigs :
       LET i == parseInt(FidxOrZero(fIdx))
           list == placeholderChain(SizeOf(fKind), sig)
       IN IF i < Len(list)
          THEN /\ fSrc' = list[i + 1]
               /\ fIdx' = String(i + 1)
               /\ fStatus' = "loading"
               /\ UNCHANGED fHidden
          ELSE /\ fHidden' = TRUE
               /\ fStatus' = "failed"
               /\ UNCHANGED <<fSrc, fIdx>>
  /\ fErrors' = fErrors + 1
  /\ UNCHANGED <<fKind, fProp, fChanges>>

\* a render with another src prop (the resolver called setImg, or the view got
\* another item): React assigns the src attribute and nothing else
SrcPropChange ==
  /\ fChanges < MaxSrcChanges
  /\ \E src \in OriginalSrcs :
       /\ src # fProp
       /\ fProp' = src
       /\ fSrc' = src
  /\ fStatus' = (IF fHidden THEN fStatus ELSE "loading")
  /\ fErrors' = 0
  /\ fChanges' = fChanges + 1
  /\ UNCHANGED <<fKind, fIdx, fHidden>>

nonFallbackVars ==
  <<mergeVars, routeVars, scoreVars, scrapeVars, appVars, resolverVars, adminVars>>

FallbackNext ==
  \/ ImgLoaded /\ UNCHANGED nonFallbackVars
  \/ ImgError /\ UNCHANGED nonFallbackVars
  \/ SrcPropChange /\ UNCHANGED nonFallbackVars

\* ------------------------------------------------------------------ specs
SideIdle == AdminIdle /\ FallbackIdle

InitMerge == MergeInit /\ RouteIdle /\ ScoreIdle /\ ScrapeIdle /\ AppIdle /\ ResolverIdle /\ SideIdle

SpecMerge == InitMerge /\ [][MergeNext]_vars

InitRoute == RouteInit /\ MergeIdle /\ ScoreIdle /\ ScrapeIdle /\ AppIdle /\ ResolverIdle /\ SideIdle

SpecRoute == InitRoute /\ [][RouteNext]_vars

InitScore == ScoreInit /\ MergeIdle /\ RouteIdle /\ ScrapeIdle /\ AppIdle /\ ResolverIdle /\ SideIdle

SpecScore == InitScore /\ [][ScoreNext]_vars

InitScrape == ScrapeInit /\ MergeIdle /\ RouteIdle /\ ScoreIdle /\ AppIdle /\ ResolverIdle /\ SideIdle

SpecScrape == InitScrape /\ [][ScrapeNext]_vars

InitApp == AppInit /\ MergeIdle /\ RouteIdle /\ ScoreIdle /\ ScrapeIdle /\ ResolverIdle /\ SideIdle

SpecApp == InitApp /\ [][AppNext]_vars

\* the loaders alone, for a visitor without admin access
RemoteNext ==
  \/ ManifestFailed /\ UNCHANGED pureVars
  \/ ManifestIgnored /\ UNCHANGED pureVars
  \/ ManifestIssues /\ UNCHANGED pureVars
  \/ ManifestFiles /\ UNCHANGED pureVars
  \/ FilesSettled /\ UNCHANGED pureVars
  \/ HashChange /\ UNCHANGED pureVars
  \/ OnDemandIgnored /\ UNCHANGED pureVars
  \/ OnDemandIssues /\ UNCHANGED pureVars

InitRemote == InitApp /\ ~isAdmin

SpecRemote == InitRemote /\ [][RemoteNext]_vars

\* an admin imports while the manifest with embedded issues and the
\* per-issue resource are being fetched: no navigation, no export
RaceNext ==
  \/ ManifestIssues /\ UNCHANGED pureVars
  \/ OnDemandIgnored /\ UNCHANGED pureVars
  \/ OnDemandIssues /\ UNCHANGED pureVars
  \/ OpenImporter /\ UNCHANGED pureVars
  \/ SetText /\ UNCHANGED pureVars
  \/ HandleImport /\ UNCHANGED pureVars

InitRace == InitApp /\ isAdmin

SpecRace == InitRace /\ [][RaceNext]_vars

InitExport == InitApp /\ isAdmin /\ route = HomeRoute

SpecExport == InitExport /\ [][ExportNext]_vars

InitResolver ==
  ResolverInit /\ MergeIdle /\ RouteIdle /\ ScoreIdle /\ ScrapeIdle /\ AppIdle /\ SideIdle

SpecResolver == InitResolver /\ [][ResolverNext]_vars

\* one ItemBlock of the issue page, reused by index for the items of other
\* issues
ReusedView == 1

ReuseNext ==
  \/ (\E item \in Items : Mount(ReusedView, item)) /\ UNCHANGED otherVars
  \/ RunEffect(ReusedView) /\ UNCHANGED otherVars
  \/ (\E k \in 1..MaxScrapes, resp \in ScrapeResponses : ScrapeSettles(k, resp))
       /\ UNCHANGED otherVars
  \/ (\E item \in Items : ChangeItem(ReusedView, item)) /\ UNCHANGED otherVars
  \/ (\E item \in Items : Rerender(ReusedView, item)) /\ UNCHANGED otherVars
  \/ Unmount(ReusedView) /\ UNCHANGED otherVars

\* React runs a scheduled effect after the render that scheduled it, and the
\* promise of a scrape settles (fetch resolves or rejects)
ReuseFairness ==
  /\ WF_vars(RunEffect(ReusedView) /\ UNCHANGED otherVars)
  /\ WF_vars((\E k \in 1..MaxScrapes, resp \in ScrapeResponses : ScrapeSettles(k, resp))
               /\ UNCHANGED otherVars)

SpecReuse == InitResolver /\ [][ReuseNext]_vars /\ ReuseFairness

InitAdmin ==
  /\ AdminInit /\ FallbackIdle
  /\ MergeIdle /\ RouteIdle /\ ScoreIdle /\ ScrapeIdle /\ AppIdle /\ ResolverIdle

InitFallback ==
  /\ FallbackInit /\ AdminIdle
  /\ MergeIdle /\ RouteIdle /\ ScoreIdle /\ ScrapeIdle /\ AppIdle /\ ResolverIdle

SpecFallback == InitFallback /\ [][FallbackNext]_vars

SpecAdmin == InitAdmin /\ [][AdminNext]_vars

\* ------------------------------------------------------------------ claims
\* the ids an issue collection carries (an entry without a usable id carries none)
IdsOf(issues) == {IdOf(issues[j]) : j \in DOMAIN issues} \cap TruthyIds

\* the last entry of a collection with the given id
LastWithId(issues, id) ==
  issues[CHOOSE j \in DOMAIN issues :
           /\ IdOf(issues[j]) = id
           /\ \A k \in DOMAIN issues : IdOf(issues[k]) = id => k <= j]

\* C1: mergeIssues(L, R) carries exactly the ids carried by L or by R, and
\* for an id carried by both, the entry of the result is R's entry (the one
\* R's last occurrence of the id holds), not L's.
C1_MergeUnionRemoteWins ==
  mpc \in {"merged", "remerged"} =>
    /\ {IdOf(merged[j]) : j \in DOMAIN merged} = IdsOf(mLocal) \cup IdsOf(mRemote)
    /\ \A j \in DOMAIN merged :
         IdOf(merged[j]) \in IdsOf(mRemote) =>
           merged[j] = LastWithId(mRemote, IdOf(merged[j]))

C1_Witness ==
  /\ mpc = "merged"
  /\ \E id \in IdsOf(mLocal) \cap IdsOf(mRemote) :
       LastWithId(mLocal, id) # LastWithId(mRemote, id)
  /\ IdsOf(mLocal) \ IdsOf(mRemote) # {}

\* C2: merging the same remote a second time changes nothing:
\* mergeIssues(mergeIssues(L, R), R) = mergeIssues(L, R), entry by entry in
\* the same order.
C2_MergeIdempotent ==
  mpc = "remerged" => mergedAgain = merged

C2_Witness ==
  /\ mpc = "remerged"
  /\ Len(merged) >= 2
  /\ IdsOf(mLocal) \cap IdsOf(mRemote) # {}
  /\ Len(mRemote) >= 2

\* C10: an entry of L or R without a usable id (null, no id, id "") is
\* dropped: the result holds no such entry and is the result of merging L
\* and R with those entries removed; the merge yields a result for every
\* input (there is no error path).
HasId(i) == Truthy(IdOf(i))

C10_FalsyIdsDropped ==
  mpc \in {"merged", "remerged"} =>
    /\ \A j \in DOMAIN merged : merged[j] \in GoodIssues
    /\ merged = mergeIssues(SelectSeq(mLocal, HasId), SelectSeq(mRemote, HasId))

C10_Witness ==
  /\ mpc = "merged"
  /\ \E j \in DOMAIN mLocal : mLocal[j] = NullIssue
  /\ \E j \in DOMAIN mRemote : ~mRemote[j].isNull /\ mRemote[j].id = ""
  /\ Len(merged) >= 2

\* the route string without one leading "#"
RouteBody(h) == IF h # <<>> /\ h[1] = "#" THEN SubSeq(h, 2, Len(h)) ELSE h

\* the positions where a non-empty "/"-free run of b starts, and where the
\* run starting at p ends
RunStarts(b) == {p \in DOMAIN b : b[p] # "/" /\ (p = 1 \/ b[p - 1] = "/")}
RunEnd(b, p) ==
  CHOOSE q \in p..Len(b) :
    /\ \A k \in p..q : b[k] # "/"
    /\ (q = Len(b) \/ b[q + 1] = "/")
Run(b, p) == SubSeq(b, p, RunEnd(b, p))

\* a route string of the shape "#/issue/<id>", <id> one non-empty "/"-free run
IsIssueShape(h) ==
  /\ Len(h) >= 5
  /\ SubSeq(h, 1, 4) = <<"#", "/", "issue", "/">>
  /\ \A k \in 5..Len(h) : h[k] # "/"

\* C6 as claimed: "" and "#/" parse to home without parameters,
\* "#/issue/<id>" to the issue view with the parameter <id>, and every other
\* route string to home.
C6_OtherShapesHome ==
  rpc = "parsed" =>
    IF IsIssueShape(hashRaw)
    THEN parsedRoute = [name |-> "issue", params |-> <<SubSeq(hashRaw, 5, Len(hashRaw))>>]
    ELSE parsedRoute = HomeRoute

\* C6 amended: "" and "#/" parse to home without parameters, "#/issue/<id>"
\* to the issue view with the parameter <id>; any other route string parses
\* to home unless, after one leading "#" is dropped and empty "/"-separated
\* parts are ignored, its first part is "issue" and a second part follows:
\* then it parses to the issue view with that second part.
C6_LenientIssueShape ==
  rpc = "parsed" =>
    LET b == RouteBody(hashRaw)
        starts == RunStarts(b)
    IN /\ hashRaw \in {<<>>, <<"#", "/">>} => parsedRoute = HomeRoute
       /\ IsIssueShape(hashRaw) =>
            parsedRoute = [name |-> "issue", params |-> <<SubSeq(hashRaw, 5, Len(hashRaw))>>]
       /\ IF Cardinality(starts) >= 2 /\ Run(b, Min(starts)) = <<"issue">>
          THEN parsedRoute =
                 [name |-> "issue", params |-> <<Run(b, Min(starts \ {Min(starts)}))>>]
          ELSE parsedRoute = HomeRoute

C6_Witness ==
  /\ rpc = "parsed"
  /\ hashRaw = <<"#", "/", "issue", "/", "x">>
  /\ parsedRoute = [name |-> "issue", params |-> <<(<<"x">>)>>]

\* C8: a URL that contains "logo" scores below the acceptance threshold of 1,
\* whichever of the content-hint, accepted-extension and size-hint bonuses
\* it also earns.
C8_LogoBelowThreshold ==
  (spc = "scored" /\ \E j \in DOMAIN scoreUrl : scoreUrl[j] = "logo")
    => score < AcceptanceThreshold

C8_Witness ==
  /\ spc = "scored"
  /\ scoreUrl = <<"https://h/", "logo", "hero", "1200", ".jpg">>
  /\ score = 0 - 3

\* the URL's part before its query string ends in .svg or .gif
EndsInSvgOrGif(u) ==
  LET qs == {j \in DOMAIN u : u[j] = "?"}
      last == IF qs = {} THEN Len(u) ELSE Min(qs) - 1
  IN last >= 1 /\ u[last] \in {".svg", ".gif"}

\* the absolute URLs of the whitelisted <meta> and the <img> tags of the page
ExtractedUrls(html, url) ==
  {toAbsoluteUrl(html[j].url, url) : j \in {k \in DOMAIN html : html[k].tag # "othermeta"}}

\* C9: a URL ending in .svg or .gif, with or without a query string after
\* it, is not among the scraper's candidates and is not what
\* resolveArticleImage returns, even when the rest of the URL would score
\* above the threshold.
C9_SvgGifExcluded ==
  xpc = "resolved" =>
    /\ \A j \in DOMAIN xCandidates : ~EndsInSvgOrGif(xCandidates[j])
    /\ ~EndsInSvgOrGif(xResult.value)
    /\ xResult.value # EmptyUrl =>
         \E j \in DOMAIN xCandidates : xCandidates[j] = xResult.value

C9_Witness ==
  /\ xpc = "resolved"
  /\ \E u \in ExtractedUrls(xResp.html, xUrl) :
       /\ EndsInSvgOrGif(u)
       /\ \E j \in DOMAIN u : u[j] = "?"
       /\ ContainsAny(u, {"hero"})
  /\ Len(xCandidates) = 1
  /\ xResult.value = xCandidates[1]
  /\ scoreImage(xResult.value) >= AcceptanceThreshold

\* C3: from the bootstrap store on, whatever manifest merges, on-demand
\* merges and admin imports have been applied, no two issues of the store
\* have the same id.
C3_StoreIdsUnique ==
  \A j, k \in DOMAIN data : j # k => data[j].id # data[k].id

C3_Witness ==
  /\ lastOp = "import"
  /\ manifest = "done"
  /\ fetchCount >= 1
  /\ \A id \in AppIds : inflight[id] = 0
  /\ Len(data) = 2
  /\ data[1].marker # Undefined

\* C5: the admin exports the store and imports exactly the exported text
\* while the store is still as exported: the import is accepted and leaves
\* the store, and its persisted copy, as they were; and in every reachable
\* state, merging the issues of the store's own export into the store gives
\* the store.
C5_ExportImportRoundTrip ==
  /\ [][(/\ HandleImport
          /\ exported # NoFile
          /\ text = exported[1]
          /\ exported[1] = JSONstringify(data))
         => (/\ data' = data
             /\ persisted' = persisted
             /\ error' = NoError
             /\ ~showImporter')]_vars
  /\ [](mergeIssues(data, JSONparse(JSONstringify(data)).issues) = data)

C5_Witness ==
  /\ lastOp = "import of the export"
  /\ exported = <<JSONstringify(data)>>
  /\ Len(data) = 2
  /\ data[1].marker = "m1"
  /\ data[2].marker = "m2"

\* a text that is not JSON, or has no issues array, or has an issue without
\* a non-empty id
Rejectable(t) ==
  \/ ~t.valid
  \/ t.top = "null"
  \/ ~t.issuesArray
  \/ \E j \in DOMAIN t.items :
       \/ t.items[j].null
       \/ ~\E k \in DOMAIN t.items[j].pairs :
             t.items[j].pairs[k][1] = "id" /\ t.items[j].pairs[k][2] # ""

\* C7: handleImport on a text that is not valid JSON, has no issues array or
\* holds an issue without a non-empty id shows an inline error, keeps the
\* dialog open and leaves the store and its persisted copy unchanged: none
\* of the payload's issues is applied.
C7_InvalidImportRejected ==
  [][(HandleImport /\ Rejectable(text))
     => (/\ error' # NoError
         /\ showImporter'
         /\ data' = data
         /\ persisted' = persisted)]_vars

C7_Witness ==
  /\ showImporter
  /\ text = JSONstringify(<<[isNull |-> FALSE, id |-> "A", marker |-> "m1"],
                            [isNull |-> FALSE, id |-> "", marker |-> "m1"]>>)
  /\ error = <<"every issue needs an id">>
  /\ ~Exists(data, "A")

\* the image a terminal state prescribes for the item the view displays
Prescribed(v, t) ==
  CASE t = "explicit" ->
         ValidExplicit(vItem[v].src) /\ vImg[v] = ExplicitImage(vItem[v].src)
    [] t = "cache-hit" ->
         /\ ~ValidExplicit(vItem[v].src)
         /\ vImg[v].src # EmptyUrl
         /\ vImg[v] = OGImage(vImg[v].src, vItem[v].firstUrl)
    [] t = "scraped" ->
         /\ ~ValidExplicit(vItem[v].src)
         /\ scoreImage(vImg[v].src) >= AcceptanceThreshold
         /\ vImg[v] = OGImage(vImg[v].src, vItem[v].firstUrl)
    [] t = "placeholder" ->
         ~ValidExplicit(vItem[v].src) /\ vImg[v] = Placeholder

\* every evaluation that has ended took exactly one of the four terminal
\* branches
OneTerminalPerEvaluation ==
  \A v \in Views :
    vEval[v] = "done" =>
      /\ Cardinality(vTerminal[v]) = 1
      /\ vTerminal[v] \subseteq {"explicit", "cache-hit", "scraped", "placeholder"}

\* C4: once the resolution of a view's item has ended, exactly one of the
\* terminal states explicit, cache-hit, scraped, placeholder was reached, and
\* the image the view shows is the one that state prescribes for the item.
C4_OneTerminalDeterminesImage ==
  \A v \in Views :
    vEval[v] = "done" =>
      /\ Cardinality(vTerminal[v]) = 1
      /\ \A t \in vTerminal[v] : Prescribed(v, t)

\* the same, for the views that never got another item after they were mounted
C4_FreshViewsOnly ==
  nChanges = 0 => C4_OneTerminalDeterminesImage

\* the condition under which a visit is to grant admin access: a key is
\* configured (blanks around it aside) and the URL key equals it, or none is
\* configured and admin=1 is present
GrantingVisit(env, v) ==
  \/ trim(env) # <<>> /\ v.key = trim(env)
  \/ trim(env) = <<>> /\ v.admin = <<"1">>

\* C11: the grant is in local storage exactly when one of the visits so far
\* had the configured key in its URL or, no key being configured, the admin=1
\* flag; after a visit's effect has run admin access is in force exactly when
\* the grant is stored, at the first render of a visit exactly when an
\* earlier visit stored it; the importer dialog is open only with admin access.
C11_AdminGate ==
  /\ (adminStored = <<"1">>) <=> (\E j \in DOMAIN visits : GrantingVisit(envKey, visits[j]))
  /\ apc = "ready" => (adminState <=> adminStored = <<"1">>)
  /\ apc = "rendered" =>
       (adminState <=> \E j \in DOMAIN visits : GrantingVisit(envKey, visits[j]))
  /\ adminShow => adminState /\ adminStored = <<"1">>

\* a third visit without parameters has admin access, with the dialog open,
\* a first visit having carried the key and a second a wrong key
C11_Witness ==
  /\ Len(visits) = 3
  /\ trim(envKey) = <<"k">>
  /\ visits[1].key = <<"k">>
  /\ visits[2].key = <<"j">> /\ visits[2].admin = <<"1">>
  /\ visits[3] = [key |-> Null, admin |-> Null]
  /\ apc = "ready"
  /\ ImporterShown

\* C12: when the manifest fetch fails or answers with a non-success status,
\* the store and its persisted copy stay as they are, nothing the user sees
\* changes (no error message, no dialog), no fetch is started, and the
\* manifest is never fetched again.
C12_ManifestFailureSilent ==
  /\ [][(manifest = "pending" /\ manifest' = "failed")
        => (/\ data' = data
            /\ persisted' = persisted
            /\ error' = error
            /\ showImporter' = showImporter
            /\ route' = route
            /\ inflight' = inflight
            /\ nFiles' = nFiles)]_vars
  /\ [][manifest = "failed" => (manifest' = "failed" /\ nFiles' = nFiles)]_vars

\* the manifest fetch has failed, and the store holds what an import and an
\* on-demand fetch brought
C12_Witness ==
  /\ manifest = "failed"
  /\ Len(data) = 2
  /\ fetchCount >= 1
  /\ lastOp = "import"
  /\ error = NoError

\* the issues of the files whose fetch succeeded, in the order of the manifest
RECURSIVE FetchedIssues(_, _)
FetchedIssues(payloads, n) ==
  IF n = 0 THEN <<>>
  ELSE FetchedIssues(payloads, n - 1)
       \o (IF payloads[n].failed \/ ~payloads[n].issuesArray
           THEN <<>> ELSE payloads[n].issues)

\* C13: in files mode one fetch per listed file is awaited; whichever of them
\* fail, the store becomes the merge of the store with the concatenated
\* issues of the files that were fetched, every usable id of a fetched file
\* is in the store afterwards, and the persisted copy follows.
C13_FilesModeTolerant ==
  [][manifest = "files" =>
       \A payloads \in [1..nFiles -> FilePayloads] :
         FilesSettledWith(payloads) =>
           /\ data' = mergeIssues(data, FetchedIssues(payloads, nFiles))
           /\ persisted' = JSONstringify(data')
           /\ \A k \in 1..nFiles :
                ~payloads[k].failed =>
                  \A j \in DOMAIN payloads[k].issues :
                    Truthy(IdOf(payloads[k].issues[j])) =>
                      Exists(data', IdOf(payloads[k].issues[j]))]_vars

\* of two listed files one failed, and the other's issue is in the store
C13_Witness ==
  /\ manifest = "done"
  /\ filesFailed = 1
  /\ lastOp = "remote"
  /\ fetchCount = 0
  /\ Exists(data, "A")

\* the id of the issue route r
RouteId(r) == r.params[1][1]

\* the route shows an issue that the store does not hold
IssueMissing(r, issues) ==
  r.name = "issue" /\ \A j \in DOMAIN issues : issues[j].id # RouteId(r)

\* C14: a fetch of /content/<id>.json is issued exactly when the on-demand
\* effect runs (first render, route change, store change) with an issue
\* route whose id the store lacks, and it is the resource of that id; a
\* payload that arrives is merged into the store; a fetch that fails leaves
\* the store as it is, the issue still absent, and starts nothing.
C14_OnDemandLoad ==
  /\ (IssueMissing(route, data) => fetchCount = 1 /\ inflight[RouteId(route)] = 1)
  /\ (~IssueMissing(route, data) => fetchCount = 0)
  /\ [][fetchCount' # fetchCount =>
          /\ fetchCount' = fetchCount + 1
          /\ IssueMissing(route', data')
          /\ inflight'[RouteId(route')] >= 1
          /\ \A id \in AppIds \ {RouteId(route')} : inflight'[id] <= inflight[id]]_vars
  /\ [][((route' # route \/ data' # data) /\ IssueMissing(route', data'))
          => fetchCount' = fetchCount + 1]_vars
  /\ [][\A id \in AppIds, payload \in Payloads :
          OnDemandArrives(id, payload) =>
            /\ data' = mergeIssues(data, payload)
            /\ persisted' = JSONstringify(data')
            /\ \A j \in DOMAIN payload :
                 Truthy(IdOf(payload[j])) => Exists(data', IdOf(payload[j]))]_vars
  /\ [][OnDemandIgnored =>
          /\ data' = data
          /\ persisted' = persisted
          /\ fetchCount' = fetchCount
          /\ error' = error
          /\ (IssueMissing(route, data) => IssueMissing(route', data'))]_vars

\* the issue of the route was fetched on demand and is in the store; an
\* earlier on-demand fetch had failed
C14_Witness ==
  /\ route = parseHashFromString(IssueHash("A"))
  /\ Exists(data, "A")
  /\ manifest = "pending"
  /\ fetchCount = 2
  /\ \A id \in AppIds : inflight[id] = 0
  /\ lastOp = "remote"

\* the chain the claim names: the placeholder services, then the graphic
ChainServices == <<"unsplash", "picsum", "svg">>

ShowsExplicit(v) == vEval[v] # "unmounted" /\ ValidExplicit(vItem[v].src)

\* C16: whenever a view displays an item whose image.src is present, not
\* logo-like and not of a disallowed extension, the view's resolved image is
\* that src, and the evaluation for that item has looked up the cache zero
\* times, issued zero scrapes and written the cache zero times.
C16_ExplicitImageWins ==
  \A v \in Views :
    ShowsExplicit(v) =>
      /\ vImg[v].src = vItem[v].src
      /\ vOps[v] = NoOps

\* the part of C16 that holds in every state: no lookup, scrape or write
C16_ExplicitTouchesNothing ==
  \A v \in Views :
    ShowsExplicit(v) =>
      /\ vOps[v] = NoOps
      /\ \A k \in DOMAIN scrapes :
           (scrapes[k] # NoScrape /\ scrapes[k].view = v) => ~scrapes[k].alive

\* the image part of C16 holds for a view whose item never changed
C16_FreshExplicit ==
  \A v \in Views :
    (ShowsExplicit(v) /\ nChanges = 0) => vImg[v].src = vItem[v].src

\* a view was reused for an item with a valid explicit image and its effect ran
C16_ReusedExplicit ==
  \E v \in Views :
    /\ ShowsExplicit(v)
    /\ vEval[v] = "done"
    /\ nChanges > 0

\* ---------------------------------------------------------------------------
\* C17  cache hit
\* ---------------------------------------------------------------------------

\* the effect of view v runs in this step
EffectRuns(v) == vEval[v] = "effect" /\ vEval'[v] \in {"done", "scraping"}

\* the item has no valid explicit image and its first link is a key of the cache
CachedLink(item, cache) ==
  /\ ~ValidExplicit(item.src)
  /\ item.firstUrl \in DOMAIN cache
  /\ cache[item.firstUrl] # EmptyUrl

\* C17: when the effect runs for an item that has no valid explicit image and
\* whose first link URL is a key of the image cache, the view's resolved image
\* becomes the cached URL of that key (linked to the article), the evaluation
\* ends there, and no scrape is issued: the set of scrapes in flight and the
\* evaluation's scrape count stay as they were.
C17_CacheHit ==
  [][\A v \in Views :
       (EffectRuns(v) /\ CachedLink(vItem[v], imgCache)) =>
         /\ vImg'[v].src = imgCache[vItem[v].firstUrl]
         /\ vImg'[v].href = vItem[v].firstUrl
         /\ vEval'[v] = "done"
         /\ scrapes' = scrapes
         /\ vOps'[v].scrapes = 0
         /\ imgCache' = imgCache]_vars

\* a view's evaluation ended at the cache with the cached URL shown
C17_Witness ==
  \E v \in Views :
    /\ vEval[v] = "done"
    /\ vTerminal[v] = {"cache-hit"}
    /\ vOps[v] = [lookups |-> 1, scrapes |-> 0, writes |-> 0]
    /\ vImg[v].src = imgCache[vItem[v].firstUrl]

\* ---------------------------------------------------------------------------
\* C18  scrape success
\* ---------------------------------------------------------------------------

\* what resolveArticleImage can return for each link URL
ScrapeResults ==
  [u \in DOMAIN EmptyCache |-> {resolveArticleImage(u, resp) : resp \in ScrapeResponses}]

\* the scrape in slot k settles in this step, resolveArticleImage returning
\* the non-empty URL src
Returns(k, src) ==
  /\ scrapes[k] # NoScrape
  /\ scrapes'[k] = NoScrape
  /\ src # EmptyUrl
  /\ [threw |-> FALSE, value |-> src] \in ScrapeResults[scrapes[k].url]
  /\ ScrapeSettlesWith(k, [threw |-> FALSE, value |-> src])

\* the URLs a scrape can return
ScrapedSrcs == {s.value : s \in UNION {ScrapeResults[u] : u \in DOMAIN ScrapeResults}}

\* the step stores src in the cache under url, keeps the other entries and
\* makes src, linked to url, the image of view v
StoredAndShown(v, url, src) ==
  /\ imgCache'[url] = src
  /\ \A u \in DOMAIN imgCache \ {url} : imgCache'[u] = imgCache[u]
  /\ vImg'[v].src = src
  /\ vImg'[v].href = url
  /\ vEval'[v] = "done"

\* C18 as stated: whenever the scrape of an item's first link URL returns a
\* non-empty image URL, that URL is stored in the image cache under the link
\* URL and becomes the resolved image of the view that issued the scrape.
C18_ScrapeSuccessAlwaysStored ==
  [][\A k \in DOMAIN scrapes : \A src \in ScrapedSrcs :
       Returns(k, src) => StoredAndShown(scrapes[k].view, scrapes[k].url, src)]_vars

\* C18: when the scrape of an item's first link URL returns a non-empty image
\* URL while the evaluation that issued it is still current (view mounted,
\* inputs unchanged), that URL is stored in the image cache under the link URL,
\* the other cache entries stay, and the URL becomes the view's resolved image
\* in place of what was shown; a result that arrives for an evaluation that was
\* cleaned up is neither stored nor shown.
C18_ScrapeSuccess ==
  [][\A k \in DOMAIN scrapes : \A src \in ScrapedSrcs :
       Returns(k, src) =>
         IF scrapes[k].alive
         THEN StoredAndShown(scrapes[k].view, scrapes[k].url, src)
         ELSE imgCache' = imgCache /\ vImg' = vImg]_vars

\* a scrape replaced the provisional placeholder of a freshly mounted view
C18_Witness ==
  \E v \in Views :
    /\ vEval[v] = "done"
    /\ vTerminal[v] = {"scraped"}
    /\ vOps[v] = [lookups |-> 1, scrapes |-> 1, writes |-> 1]
    /\ vImg[v].src = imgCache[vItem[v].firstUrl]
    /\ vImg[v].src # EmptyUrl
    /\ nChanges = 0

\* ---------------------------------------------------------------------------
\* C19  scrape failure
\* ---------------------------------------------------------------------------

\* the evaluation of view v ended with a scrape that failed or returned empty
ScrapeFailed(v) ==
  /\ vEval[v] = "done"
  /\ "placeholder" \in vTerminal[v]
  /\ vItem[v].firstUrl # NoLink

\* C19: whenever a view's evaluation has ended with a scrape that failed or
\* returned empty, the view's resolved image is the randomized placeholder,
\* the evaluation has written nothing to the image cache, and it has issued
\* exactly one scrape.
C19_FailureShowsPlaceholder ==
  \A v \in Views :
    ScrapeFailed(v) =>
      /\ vImg[v] = Placeholder
      /\ vOps[v].writes = 0
      /\ vOps[v].scrapes = 1

\* the part of C19 that holds in every state: a failed scrape writes nothing,
\* no evaluation issues a second scrape, and no view has two live scrapes
C19_NoWriteNoSecondScrape ==
  \A v \in Views :
    /\ vOps[v].scrapes <= 1
    /\ ScrapeFailed(v) => (vOps[v].writes = 0 /\ vOps[v].scrapes = 1)
    /\ Cardinality({k \in DOMAIN scrapes :
                      scrapes[k] # NoScrape /\ scrapes[k].view = v /\ scrapes[k].alive}) <= 1

\* the part of C19 that holds in every step: the step in which a scrape fails
\* leaves the cache as it was, and an effect that runs for a link the cache
\* has no entry for issues a scrape of that link (no negative entry stops it)
C19_NoNegativeEntry ==
  [][\A v \in Views :
       /\ (~ScrapeFailed(v) /\ ScrapeFailed(v)') => imgCache' = imgCache
       /\ ( /\ EffectRuns(v)
            /\ ~ValidExplicit(vItem[v].src)
            /\ vItem[v].firstUrl \in DOMAIN imgCache
            /\ imgCache[vItem[v].firstUrl] = EmptyUrl )
          => \E k \in DOMAIN scrapes :
               /\ scrapes[k] = NoScrape
               /\ scrapes'[k] = [view |-> v, url |-> vItem[v].firstUrl, alive |-> TRUE]]_vars

\* the image part of C19 holds for a view whose item never changed
C19_FreshFailure ==
  \A v \in Views :
    (ScrapeFailed(v) /\ nChanges = 0) => vImg[v] = Placeholder

\* a reused view's scrape failed
C19_ReusedFailure ==
  \E v \in Views : ScrapeFailed(v) /\ nChanges > 0 /\ vImg[v] # Placeholder

\* ---------------------------------------------------------------------------
\* C20  results for cleaned-up evaluations
\* ---------------------------------------------------------------------------

\* the scrape in slot k completes in this step after its evaluation was
\* cleaned up: its view was disposed or got other inputs
LateCompletion(k) ==
  /\ scrapes[k] # NoScrape
  /\ ~scrapes[k].alive
  /\ scrapes'[k] = NoScrape

\* C20: a scrape that completes after its view was disposed, or after the
\* view's inputs changed and the earlier evaluation was cleaned up, leaves the
\* resolved image of that view, and of every view, as it was; it does not end
\* or restart the view's current evaluation either.
C20_LateScrapeIgnored ==
  [][\A k \in DOMAIN scrapes :
       LateCompletion(k) =>
         /\ vImg' = vImg
         /\ vEval' = vEval
         /\ vTerminal' = vTerminal]_vars

\* every scrape of an evaluation that is no longer current is marked so: a
\* scrape in flight is alive only if its view is still scraping that link
C20_CleanedUpScrapesAreDead ==
  \A k \in DOMAIN scrapes :
    (scrapes[k] # NoScrape /\ scrapes[k].alive) =>
      /\ vEval[scrapes[k].view] = "scraping"
      /\ vItem[scrapes[k].view].firstUrl = scrapes[k].url

\* a scrape has just completed for a cleaned-up evaluation while a view is
\* disposed and another, or the same one with new inputs, shows its image
C20_Witness ==
  /\ lateSettled
  /\ nChanges > 0
  /\ \E v \in Views : vEval[v] \in {"scraping", "done"} /\ vImg[v] # NoImg

\* ---------------------------------------------------------------------------
\* C21  the scraper returns a best candidate or nothing
\* ---------------------------------------------------------------------------

\* the absolute URLs of the page's whitelisted <meta> and <img> tags that pass
\* the extension and logo filters, as a set
Passing(html, url) ==
  {u \in {toAbsoluteUrl(html[j].url, url) : j \in {i \in DOMAIN html : html[i].tag \in {"meta", "img"}}} :
     u # EmptyUrl /\ ~isBadExt(u) /\ ~isLogoish(u)}

\* the highest score in a non-empty set of URLs
TopScore(set) == CHOOSE n \in {scoreImage(u) : u \in set} : \A u \in set : scoreImage(u) <= n

\* the call got a page: the article URL parses and the proxy answered with success
GotPage == Parseable(xUrl) /\ xResp.kind = "response" /\ xResp.ok

\* C21: once resolveArticleImage has settled, a returned URL is one of the
\* de-duplicated candidates that pass the extension and logo filters, no such
\* candidate scores higher, and its score is at least 1; it returns empty when
\* no candidate remains, when the top score is below 1, when the article URL
\* does not parse and when the proxy's response is not a success; and it
\* returns a URL in every other case in which it got a page.
C21_BestCandidateOrEmpty ==
  xpc = "resolved" =>
    LET set == Passing(xResp.html, xUrl)
    IN /\ xResult.value # EmptyUrl =>
            /\ GotPage
            /\ xResult.value \in set
            /\ scoreImage(xResult.value) = TopScore(set)
            /\ scoreImage(xResult.value) >= 1
       /\ (~Parseable(xUrl) \/ (xResp.kind = "response" /\ ~xResp.ok)) => xResult = NoImage
       /\ (GotPage /\ (set = {} \/ TopScore(set) < 1)) => xResult = NoImage
       /\ (GotPage /\ set # {} /\ TopScore(set) >= 1) => (~xResult.threw /\ xResult.value # EmptyUrl)
       /\ GotPage => Len(xCandidates) = Cardinality(set)

\* the call returned a candidate that is not the first of the page, out of
\* two passing candidates with different scores
C21_Witness ==
  /\ xpc = "resolved"
  /\ GotPage
  /\ Cardinality(Passing(xResp.html, xUrl)) = 2
  /\ xResult.value # EmptyUrl
  /\ xResult.value # xCandidates[1]
  /\ scoreImage(xCandidates[1]) >= 1

\* the call got a page whose best passing candidate scores below 1
C21_WitnessBelowThreshold ==
  /\ xpc = "resolved"
  /\ GotPage
  /\ Passing(xResp.html, xUrl) # {}
  /\ xResult = NoImage

\* ---------------------------------------------------------------------------
\* C22  concurrent scrapes of one link
\* ---------------------------------------------------------------------------

\* a scrape of url is in flight for a current evaluation of a view other than v
OtherScrapes(v, url) ==
  \E k \in DOMAIN scrapes :
    /\ scrapes[k] # NoScrape
    /\ scrapes[k].alive
    /\ scrapes[k].url = url
    /\ scrapes[k].view # v

\* C22: an effect that runs for a link the cache has no entry for issues its
\* own scrape of that link also while another view's scrape of the same link
\* is in flight, which stays in flight (requests are not de-duplicated); and
\* a scrape that succeeds for a current evaluation after another one has
\* already written the entry of its link overwrites that entry with its own
\* URL and shows that URL (the later write determines the value).
C22_NoDedupLastWriteWins ==
  [][/\ \A v \in Views :
          ( /\ EffectRuns(v)
            /\ ~ValidExplicit(vItem[v].src)
            /\ vItem[v].firstUrl \in DOMAIN imgCache
            /\ imgCache[vItem[v].firstUrl] = EmptyUrl
            /\ OtherScrapes(v, vItem[v].firstUrl) )
          => \E k \in DOMAIN scrapes :
               /\ scrapes[k] = NoScrape
               /\ scrapes'[k] = [view |-> v, url |-> vItem[v].firstUrl, alive |-> TRUE]
               /\ \A j \in DOMAIN scrapes \ {k} : scrapes'[j] = scrapes[j]
     /\ \A k \in DOMAIN scrapes : \A src \in ScrapedSrcs :
          (Returns(k, src) /\ scrapes[k].alive /\ imgCache[scrapes[k].url] # EmptyUrl)
          => /\ imgCache'[scrapes[k].url] = src
             /\ vImg'[scrapes[k].view].src = src]_vars

\* two views showing the same link both scraped it and wrote its entry with
\* different URLs; the cache holds one of the two
C22_Witness ==
  \E v, w \in Views :
    /\ v # w
    /\ vEval[v] = "done" /\ vEval[w] = "done"
    /\ vTerminal[v] = {"scraped"} /\ vTerminal[w] = {"scraped"}
    /\ vItem[v].firstUrl = vItem[w].firstUrl
    /\ vOps[v].writes = 1 /\ vOps[w].writes = 1
    /\ vImg[v].src # vImg[w].src
    /\ imgCache[vItem[v].firstUrl] = vImg[w].src

\* two scrapes of one link are in flight at once for two displayed items
C22_WitnessInFlight ==
  \E k, j \in DOMAIN scrapes :
    /\ k # j
    /\ scrapes[k] # NoScrape /\ scrapes[j] # NoScrape
    /\ scrapes[k].alive /\ scrapes[j].alive
    /\ scrapes[k].url = scrapes[j].url
    /\ scrapes[k].view # scrapes[j].view

\* ---------------------------------------------------------------------------
\* C23  the image cache only grows
\* ---------------------------------------------------------------------------

\* the article URLs that are keys of the cache
CacheKeys(cache) == {u \in DOMAIN cache : cache[u] # EmptyUrl}

\* C23: in every step every key of the image cache stays a key with a
\* non-empty value, and a step changes the entry of at most one URL: a write
\* for one URL leaves the entries of all other URLs as they were.
C23_CacheOnlyGrows ==
  [][/\ CacheKeys(imgCache) \subseteq CacheKeys(imgCache')
     /\ Cardinality({u \in DOMAIN imgCache : imgCache'[u] # imgCache[u]}) <= 1
     /\ \A k \in DOMAIN scrapes :
          (scrapes[k] # NoScrape /\ scrapes'[k] = NoScrape) =>
            \A u \in DOMAIN imgCache \ {scrapes[k].url} : imgCache'[u] = imgCache[u]]_vars

\* two views resolved two different links by scraping and both entries are
\* in the cache
C23_Witness ==
  \E v, w \in Views :
    /\ vTerminal[v] = {"scraped"} /\ vTerminal[w] = {"scraped"}
    /\ vEval[v] = "done" /\ vEval[w] = "done"
    /\ vItem[v].firstUrl # vItem[w].firstUrl
    /\ CacheKeys(imgCache) = {vItem[v].firstUrl, vItem[w].firstUrl}
    /\ imgCache[vItem[v].firstUrl] = vImg[v].src
    /\ imgCache[vItem[w].firstUrl] = vImg[w].src

\* ---------------------------------------------------------------------------
\* C24  one evaluation per pair of inputs
\* ---------------------------------------------------------------------------

\* a scrape for a current evaluation of view v is in flight in slot k
LiveScrape(sc, v) == sc # NoScrape /\ sc.view = v /\ sc.alive

\* C24: a view's resolution is scheduled only when the view is mounted or
\* when its item's first link URL or explicit image src changes; a cache
\* lookup or a scrape is started only by the run of a resolution so scheduled,
\* and one evaluation looks the cache up at most once and issues at most one
\* scrape: a render with both inputs unchanged starts nothing.
C24_OncePerInputs ==
  [][\A v \in Views :
       /\ (vEval[v] # "effect" /\ vEval'[v] = "effect") =>
            \/ vEval[v] = "unmounted"
            \/ vItem'[v].firstUrl # vItem[v].firstUrl
            \/ vItem'[v].src # vItem[v].src
       /\ ( \/ vOps'[v].lookups > vOps[v].lookups
            \/ vOps'[v].scrapes > vOps[v].scrapes
            \/ \E k \in DOMAIN scrapes : ~LiveScrape(scrapes[k], v) /\ LiveScrape(scrapes'[k], v) )
          => EffectRuns(v)
       /\ vOps'[v].lookups <= 1
       /\ vOps'[v].scrapes <= 1
       /\ (rerendered' /\ vEval[v] # "unmounted") =>
            /\ vEval'[v] = vEval[v]
            /\ vOps'[v] = vOps[v]
            /\ scrapes' = scrapes]_vars

\* a view whose evaluation has looked the cache up and scraped once has just
\* rendered again with the same inputs
C24_Witness ==
  /\ rerendered
  /\ \E v \in Views :
       /\ vEval[v] = "done"
       /\ vOps[v].lookups = 1
       /\ vOps[v].scrapes = 1

\* ---------------------------------------------------------------------------
\* C25  the persisted store follows the store
\* ---------------------------------------------------------------------------

\* the text stored under the content key parses to an object whose issues
\* array is the list issues
HoldsStore(stored, issues) ==
  LET p == JSONparse(stored)
  IN /\ ~p.threw
     /\ ~p.isNull
     /\ p.issuesArray
     /\ p.issues = issues

\* C25: in every state reached after the effects of a render have run, the
\* value under the content storage key is one serialized object that holds the
\* whole in-memory store: after any manifest merge, on-demand merge or import
\* the persisted value parses back to exactly the issues of the store.
C25_PersistedFollowsStore == HoldsStore(persisted, data)

\* an import and a remote merge have both changed the store, which is persisted
C25_Witness ==
  /\ lastOp \in {"import", "remote"}
  /\ Len(data) = 2
  /\ \E j \in DOMAIN data : data[j].marker # Undefined
  /\ HoldsStore(persisted, data)
  /\ ~HoldsStore(persisted, bootstrapData)

\* ---------------------------------------------------------------------------
\* C26  the on-demand loader and a resource that never brings the issue
\* ---------------------------------------------------------------------------

\* the on-demand fetch of id completes in this step with payload, whose issues
\* array is not empty, and the store still lacks the issue of the route
ArrivesWithoutIssue(id, payload) ==
  /\ route.name = "issue"
  /\ RouteId(route) = id
  /\ OnDemandArrives(id, payload)
  /\ IssueMissing(route', data')

\* C26: with the route fixed on an issue whose id does not enter the store,
\* the completion of an on-demand fetch, by failure or by a non-empty issues
\* array without that id, issues no further fetch of the resource.
C26_CompletionNeverRefetches ==
  [][/\ \A id \in AppIds, payload \in Payloads :
          ArrivesWithoutIssue(id, payload) =>
            (fetchCount' = fetchCount /\ inflight'[id] = inflight[id] - 1)
     /\ (OnDemandIgnored /\ IssueMissing(route, data)) => fetchCount' = fetchCount]_vars

\* the part of C26 that holds: a fetch that fails, or whose payload has no
\* issues, issues no further fetch
C26_FailureStops ==
  [][(OnDemandIgnored /\ IssueMissing(route, data)) =>
       /\ fetchCount' = fetchCount
       /\ \A id \in AppIds : inflight'[id] <= inflight[id]]_vars

\* every completion that brings issues without the route's issue puts the
\* loader back where it was: the same route, the issue missing, one fetch of
\* the same resource in flight
C26_CompletionRestoresFetch ==
  [][\A id \in AppIds, payload \in Payloads :
       ArrivesWithoutIssue(id, payload) =>
         /\ route' = route
         /\ inflight' = inflight
         /\ fetchCount' = fetchCount + 1]_vars

\* the loader fetched the resource again after a payload without the issue,
\* the store being what it was before the first fetch
C26_Refetched ==
  /\ IssueMissing(route, data)
  /\ data = bootstrapData
  /\ lastOp = "remote"
  /\ manifest = "pending"
  /\ fetchCount = MaxFetches
  /\ inflight[RouteId(route)] = 1

\* ---------------------------------------------------------------------------
\* C27  import and remote merge do not lose each other's issues
\* ---------------------------------------------------------------------------

\* the ids of the issues in a list, ids that Map.set ignores apart
IdsIn(issues) == {IdOf(issues[j]) : j \in {i \in DOMAIN issues : Truthy(IdOf(issues[i]))}}

\* the entry that the store new has for id
EntryOf(new, id) == new[CHOOSE k \in DOMAIN new : new[k].id = id]

\* the store new has every id of the store old and of the applied list, the
\* entry of an id of the list is the list's last issue with that id, and the
\* entry of any other id is the one of old
AppliedOnTop(old, applied, new) ==
  /\ IdsIn(new) = IdsIn(old) \cup IdsIn(applied)
  /\ \A j \in DOMAIN applied :
       (Truthy(IdOf(applied[j])) /\ \A k \in DOMAIN applied : k > j => IdOf(applied[k]) # IdOf(applied[j]))
         => EntryOf(new, IdOf(applied[j])) = applied[j]
  /\ \A j \in DOMAIN old :
       old[j].id \notin IdsIn(applied) => EntryOf(new, old[j].id) = old[j]

\* C27: an import is applied on top of the store as it is when the admin
\* imports, whatever remote merges were applied before; and a remote merge
\* (embedded manifest issues, on-demand payload) that
\* is applied after an import that happened while a fetch was in flight is
\* applied on top of the store as it is then, the import included.  In both
\* orders the store afterwards has every id it had and every id of the
\* applied issues, with the applied entry for the ids of the applied issues
\* (so an id that both carry has the entry applied last) and the earlier
\* entry for the others.
C27_NoLostUpdate ==
  [][/\ (isAdmin /\ showImporter /\ HandleImport /\ ImportCheck(text) = NoError)
          => AppliedOnTop(data, JSONparse(text).issues, data')
     /\ (racedImport /\ manifest = "pending" /\ manifest' = "done" /\ lastOp' = "remote") =>
          \A payload \in Payloads :
            ManifestIssuesWith(payload) => AppliedOnTop(data, payload, data')
     /\ (racedImport /\ inflight' # inflight /\ lastOp' = "remote" /\ manifest' = manifest) =>
          \A payload \in Payloads :
            (payload # <<>> /\ data' = mergeIssues(data, payload)) =>
              \A id \in AppIds :
                OnDemandArrives(id, payload) => AppliedOnTop(data, payload, data')]_vars

\* the same for the files of a manifest that lists files
C27_FilesAppliedOnTop ==
  [][(racedImport /\ manifest = "files" /\ manifest' = "done" /\ data' # data) =>
       \A payloads \in [1..nFiles -> FilePayloads] :
         FilesSettledWith(payloads) =>
           AppliedOnTop(data, FetchedIssues(payloads, nFiles), data')]_vars

\* an import was applied while a remote fetch was in flight, the remote merge
\* was applied after it, and the store holds an issue beside the bootstrap one
C27_Witness ==
  /\ racedImport
  /\ lastOp = "remote"
  /\ manifest = "done"
  /\ IdsIn(data) = AppIds
  /\ \A j \in DOMAIN data : data[j].marker # Undefined

\* ---------------------------------------------------------------- C28
\* the payloads of the listed files carry no issue at all
NoIssuesIn(payloads) == FetchedIssues(payloads, nFiles) = <<>>

\* C28: the set of issue ids of the store never shrinks: every step (manifest
\* merge, files merge, on-demand merge, import, and the steps that apply
\* nothing) keeps every id the store had, and an operation whose payload has no
\* issues (an import of an empty issues array, a manifest with an empty issues
\* array, files without issues, an on-demand answer without issues) leaves the
\* set of ids as it was.
C28_IdsNeverShrink ==
  [][/\ IdsIn(data) \subseteq IdsIn(data')
     /\ (isAdmin /\ showImporter /\ text.items = <<>> /\ HandleImport)
          => IdsIn(data') = IdsIn(data)
     /\ (manifest = "pending" /\ manifest' = "done" /\ ManifestIssuesWith(<<>>))
          => IdsIn(data') = IdsIn(data)
     /\ (manifest = "files" /\ manifest' = "done"
           /\ \E payloads \in [1..nFiles -> FilePayloads] :
                NoIssuesIn(payloads) /\ FilesSettledWith(payloads))
          => IdsIn(data') = IdsIn(data)
     /\ (inflight' # inflight /\ OnDemandIgnored)
          => IdsIn(data') = IdsIn(data)]_vars

\* an import brought a new id and the issue the store had before it is still
\* the first one, unchanged
C28_Witness ==
  /\ lastOp = "import"
  /\ IdsIn(data) = AppIds
  /\ data[1] = bootstrapData[1]
  /\ ~racedImport

\* ---------------------------------------------------------------- C29
\* src is a URL that a scrape of the article url can return
ScrapeOf(url, src) == [threw |-> FALSE, value |-> src] \in ScrapeResults[url]

\* C29: every value of the image cache is a non-empty URL that a scrape of its
\* key's article URL returns; it is not logo-like, has no disallowed extension
\* and scores at least 1, and it is not the placeholder.
C29_CacheHoldsScrapedImages ==
  \A u \in DOMAIN imgCache :
    imgCache[u] # EmptyUrl =>
      /\ ScrapeOf(u, imgCache[u])
      /\ ~isLogoish(imgCache[u])
      /\ ~isBadExt(imgCache[u])
      /\ scoreImage(imgCache[u]) >= 1
      /\ imgCache[u] # randomUnsplash

\* the cache is written in one kind of step only: a scrape whose evaluation is
\* current settles with a non-empty URL, for an item without a usable explicit
\* image, and one entry is written, under the scraped link
C29_OnlySuccessfulScrapesWrite ==
  [][imgCache' # imgCache =>
       \E k \in DOMAIN scrapes :
         /\ scrapes[k] # NoScrape /\ scrapes[k].alive /\ scrapes'[k] = NoScrape
         /\ vItem[scrapes[k].view].firstUrl = scrapes[k].url
         /\ ~ValidExplicit(vItem[scrapes[k].view].src)
         /\ \E src \in ScrapedSrcs \ {EmptyUrl} :
              /\ ScrapeOf(scrapes[k].url, src)
              /\ imgCache' = [imgCache EXCEPT ![scrapes[k].url] = src]]_vars

\* one item's scrape was stored, while another item's scrape failed and a
\* third evaluation ended on an explicit image or without a link: the cache
\* holds the one scraped entry
C29_Witness ==
  \E v, w \in Views :
    /\ vEval[v] = "done" /\ vTerminal[v] = {"scraped"}
    /\ vEval[w] = "done" /\ vTerminal[w] = {"placeholder"}
    /\ vOps[w] = [lookups |-> 1, scrapes |-> 1, writes |-> 0]
    /\ vItem[w].firstUrl # vItem[v].firstUrl
    /\ CacheKeys(imgCache) = {vItem[v].firstUrl}
    /\ imgCache[vItem[w].firstUrl] = EmptyUrl

\* ---------------------------------------------------------------- C30
\* the image of view v is one that the inputs of the item it displays
\* determine: the explicit image if it is usable; otherwise the placeholder,
\* or an image a scrape of the item's first link returns, linked to that link
DeterminedByItem(v) ==
  LET item == vItem[v]
  IN IF ValidExplicit(item.src)
     THEN vImg[v] = ExplicitImage(item.src)
     ELSE \/ vImg[v] = Placeholder
          \/ /\ item.firstUrl \in DOMAIN EmptyCache
             /\ ScrapeOf(item.firstUrl, vImg[v].src)
             /\ vImg[v] = OGImage(vImg[v].src, item.firstUrl)

\* view v was handed another item and its effect is about to run for it
HandedAnotherItem(v) == vEval[v] = "effect" /\ nChanges > 0

\* C30: when a mounted view is handed a different item, the image it shows
\* eventually is one determined by the new item's inputs (unless the view is
\* unmounted first): the previous item's image does not stay displayed.
C30_NewItemsImageEventually ==
  HandedAnotherItem(ReusedView) ~>
    \/ vEval[ReusedView] = "unmounted"
    \/ vEval[ReusedView] = "done" /\ DeterminedByItem(ReusedView)

\* the paths of the effect that call setImg do replace the previous item's
\* image: a cache hit and a scrape that returns a URL
C30_ReplacedOnHitOrScrape ==
  \A v \in Views :
    (vEval[v] = "done" /\ vTerminal[v] \cap {"cache-hit", "scraped"} # {})
      => DeterminedByItem(v)

\* a view that was never handed another item shows an image determined by its
\* item once its evaluation has ended
C30_FreshViewsDetermined ==
  \A v \in Views :
    (vEval[v] = "done" /\ nChanges = 0) => DeterminedByItem(v)

\* the evaluation for the new item has ended, nothing is in flight for the
\* view, and it shows an image the new item does not determine
C30_StaleImage ==
  /\ vEval[ReusedView] = "done"
  /\ nChanges > 0
  /\ ~DeterminedByItem(ReusedView)
  /\ \A k \in DOMAIN scrapes : scrapes[k] = NoScrape


=============================================================================
